---- MODULE Spec2Model ----
\* A model of the falcon-server authentication/authorization token lifecycle,
\* the auth controller, the auth rate limiter and course enrollment,
\* translated from the sources.
EXTENDS Integers, Sequences, FiniteSets, TLC

VARIABLES
    now,        \* Date.now(), in milliseconds
    ticks,      \* number of clock advances so far (bounds the run)
    tokLog,     \* utils/auth: calls of generateToken/generateRefreshToken and what they returned
    tokRes,     \* utils/auth: the last verifyToken call and its outcome
    suStored,   \* utils/auth: the last generated single-use token {token, hashedToken, expires}
    suRes,      \* utils/auth: the last verifyEmailToken / verifyPasswordResetToken call
    attempts,   \* authRateLimit: the limiter's Map from client address to attempt timestamps
    rlOut,      \* authRateLimit: the last request the limiter saw and what it did with it
    rlAccepted, \* history: per address, the times of the attempts the limiter let through
    rlLocked,   \* history: per address, the earliest counted attempt when it was last rejected
    users,      \* the User collection: _id -> document
    nextId,     \* the _id the next User.create assigns
    resp,       \* the last request to the auth routes or protect, and the response to it
    regLog,     \* history: the register responses that returned a verification secret
    verifiedOk, \* history: the accounts a verify-email request succeeded for
    courses,    \* the Course collection: _id -> document (maxStudents, enrolledStudents)
    inflight,   \* roster requests between the answer of findById and their save
    cresp,      \* the last request the course routes answered, and the response
    mw,         \* the last request through the access middleware and account routes, and how it ran
    eh,         \* the last failure raised in a request handler, and the response to it
    apps,       \* the Application collection: documents {job, applicant}
    applying,   \* apply requests between the answers of their findOne calls and their save
    aresp,      \* the last request the application routes answered, and the response
    resetInflight, \* reset-password requests between the answer of findOne and their save
    resetWins,  \* history: per issued reset secret, the requests it replaced the credential for
    proc        \* server.js: the HTTP server, the database connection, the timers and the exit

tokVars == <<tokLog, tokRes, suStored, suRes>>
rlVars == <<attempts, rlOut, rlAccepted, rlLocked>>
authVars == <<users, nextId, resp, regLog, verifiedOk>>
courseVars == <<courses, inflight, cresp>>
mwVars == <<mw, eh>>
jobVars == <<apps, applying, aresp>>
resetVars == <<resetInflight, resetWins>>
moreVars == <<jobVars, resetVars, proc>>
vars == <<now, ticks, tokVars, rlVars, authVars, courseVars, mwVars, moreVars>>

-----------------------------------------------------------------------------
\* Bounds of the model

\* Date.now() when the model starts (ms since the epoch).
ClockStart == 1000000000
\* How many times the clock advances in one run.
MaxTicks == 2
\* config.jwt.expiresIn, in seconds (JWT_EXPIRES_IN; the default '90d' is scaled
\* down, and stays longer than the ten minutes of a password-reset token).
ExpiresInSec == 700
\* config.jwt.refreshExpiresIn, in seconds (JWT_REFRESH_EXPIRES_IN, scaled down).
RefreshExpiresInSec == 900
\* authRateLimit(maxAttempts, windowMs): the limiter's two parameters.
maxAttempts == 2
windowMs == 3
\* How many requests reach the limiter in one run.
MaxRlRequests == 5
\* How many requests reach the auth routes and protect in one run.
MaxRequests == 4
\* Courses created, the ceiling a course is configured with, and course requests in a run.
MaxCourses == 1
MaxStudentsCeiling == 1
MaxCourseRequests == 4
\* Requests to the access middleware and the account routes in a run.
MaxAccessRequests == 4
\* Failing requests in a run.
MaxFailures == 2
\* Requests to the application routes in a run.
MaxJobRequests == 4
\* Requests in a run of concurrent password resets.
MaxResetRequests == 5
\* Shutdown signals delivered, and requests the server accepts, in a run.
MaxSignals == 3
MaxServed == 3

-----------------------------------------------------------------------------
\* Program constants

\* Date.now() is in milliseconds, JWT NumericDate values are in seconds.
MsPerSec == 1000
\* generateEmailVerificationToken: 24 hours.
EmailVerificationLifetime == 24 * 60 * 60 * 1000
\* generatePasswordResetToken: 10 minutes.
PasswordResetLifetime == 10 * 60 * 1000

JwtSecret == "config.jwt.secret"
OtherKey == "attacker-key"

Undefined == "undefined"
Roles == {"admin", "manager", "instructor", "student", "jobseeker", "employee", "designer"}
UserIds == {1, 2}
Secrets == {"s1", "s2", "s3"}

-----------------------------------------------------------------------------
\* jsonwebtoken, as utils/auth uses it

\* jwt.sign(payload, key, {expiresIn}): the timestamp is payload.iat when the
\* payload carries a (truthy) one, else the clock in seconds; exp is the
\* timestamp plus expiresIn seconds.
JwtSign(payload, key, expiresIn, t) ==
    LET timestamp == IF payload.iat # 0 THEN payload.iat ELSE t \div MsPerSec
    IN  [payload |-> [payload EXCEPT !.iat = timestamp, !.exp = timestamp + expiresIn],
         sig     |-> key]

\* jwt.verify(token, key): the signature first, then exp against the clock in seconds.
JwtVerify(token, key, t) ==
    IF token.sig # key THEN [ok |-> FALSE, name |-> "JsonWebTokenError", payload |-> token.payload]
    ELSE IF t \div MsPerSec >= token.payload.exp
         THEN [ok |-> FALSE, name |-> "TokenExpiredError", payload |-> token.payload]
         ELSE [ok |-> TRUE, name |-> "", payload |-> token.payload]

generateToken(userId, role, t) ==
    JwtSign([id |-> userId, role |-> role, type |-> Undefined, iat |-> t, exp |-> 0],
            JwtSecret, ExpiresInSec, t)

generateRefreshToken(userId, t) ==
    JwtSign([id |-> userId, role |-> Undefined, type |-> "refresh", iat |-> t, exp |-> 0],
            JwtSecret, RefreshExpiresInSec, t)

VerifyTokenNoSignature(token, t) ==
    [ok |-> TRUE, error |-> "", payload |-> token.payload]

verifyToken(token, t) ==
    LET r == JwtVerify(token, JwtSecret, t)
    IN  IF r.ok THEN [ok |-> TRUE, error |-> "", payload |-> r.payload]
        ELSE IF r.name = "TokenExpiredError"
             THEN [ok |-> FALSE, error |-> "Token has expired", payload |-> r.payload]
             ELSE IF r.name = "JsonWebTokenError"
                  THEN [ok |-> FALSE, error |-> "Invalid token", payload |-> r.payload]
                  ELSE [ok |-> FALSE, error |-> "Token verification failed", payload |-> r.payload]

-----------------------------------------------------------------------------
\* Single-use tokens (email verification, password reset)

NoHash == <<>>
NoDate == -1

\* sha256 hex digest: one-way, and distinct inputs give distinct digests.
hashToken(token) == <<"sha256", token>>

generateEmailVerificationToken(token, t) ==
    [token |-> token, hashedToken |-> hashToken(token), expires |-> t + EmailVerificationLifetime]

generatePasswordResetToken(token, t) ==
    [token |-> token, hashedToken |-> hashToken(token), expires |-> t + PasswordResetLifetime]

VerifyEmailTokenAnyStored(token, hashedToken) == hashedToken # NoHash

verifyEmailToken(token, hashedToken) ==
    LET hashedInputToken == hashToken(token)
    IN  hashedInputToken = hashedToken

verifyPasswordResetToken(token, hashedToken, expires, t) ==
    LET hashedInputToken == hashToken(token)
    IN  [isValid |-> hashedInputToken = hashedToken, isExpired |-> t > expires]

\* The configured session lifetime, in the clock's unit.
SessionLifetimeMs == MsPerSec * ExpiresInSec

\* The empty token and the empty result
NoToken == [payload |-> [id |-> 0, role |-> Undefined, type |-> Undefined, iat |-> 0, exp |-> 0],
            sig |-> ""]
NoVerify == [ok |-> FALSE, error |-> "", payload |-> NoToken.payload]

\* What a client can present: a token it was issued, the same payload signed
\* with a key of its own, or a payload of its own making signed with its key.
Forge(token) == [token EXCEPT !.sig = OtherKey]
Crafted(t) == [payload |-> [id |-> 1, role |-> "admin", type |-> Undefined, iat |-> t \div MsPerSec,
                            exp |-> (t \div MsPerSec) + 1000000],
               sig |-> OtherKey]
IssuedTokens == {e.token : e \in tokLog}
Presentable == IssuedTokens \cup {Forge(e.token) : e \in tokLog} \cup {Crafted(now)}

-----------------------------------------------------------------------------
\* middleware/auth: authRateLimit

Ips == {"10.0.0.1", "10.0.0.2"}
TooManyAttempts == "Too many authentication attempts. Please try again later."

\* attempts.get(ip).filter(timestamp => timestamp > windowStart)
CleanOldInclusive(timestamps, windowStart) ==
    SelectSeq(timestamps, LAMBDA timestamp : timestamp >= windowStart)

CleanOld(timestamps, windowStart) ==
    SelectSeq(timestamps, LAMBDA timestamp : timestamp > windowStart)

\* currentAttempts.length >= maxAttempts
LimitReachedOffByOne(currentAttempts) == Len(currentAttempts) > maxAttempts

LimitReached(currentAttempts) == Len(currentAttempts) >= maxAttempts

-----------------------------------------------------------------------------
\* utils/errors and models/User (statuses and fields as the README and the
\* spec's data model give them)

AppError(message, statusCode) == [statusCode |-> statusCode, name |-> "AppError", message |-> message]
ValidationError(message) == [statusCode |-> 400, name |-> "ValidationError", message |-> message]
AuthenticationError(message) == [statusCode |-> 401, name |-> "AuthenticationError", message |-> message]
AuthorizationError(message) == [statusCode |-> 403, name |-> "AuthorizationError", message |-> message]
NotFoundError(resource) == [statusCode |-> 404, name |-> "NotFoundError", message |-> resource]
ConflictError(message) == [statusCode |-> 409, name |-> "ConflictError", message |-> message]
\* What transporter.sendMail rejects with: an error that carries no statusCode.
MailError == [statusCode |-> 500, name |-> "Error", message |-> "sendMail failed"]

Emails == {"ann@x.io"}
\* An identity that never registers.
Nobody == "nobody@x.io"
Passwords == {"pw1", "pw2"}
\* A body field that is absent (or empty): !field is true.
Missing == ""

\* bcrypt, as the User model applies it when a password is saved.
Bcrypt(password) == <<"bcrypt", password>>
correctPassword(candidatePassword, userPassword) == userPassword = Bcrypt(candidatePassword)

\* User.create({firstName, lastName, email, password, role})
NewUser(body) ==
    [email |-> body.email, password |-> Bcrypt(body.password), role |-> body.role,
     isActive |-> TRUE, isEmailVerified |-> FALSE,
     emailVerificationToken |-> NoHash, emailVerificationExpires |-> NoDate,
     passwordResetToken |-> NoHash, passwordResetExpires |-> NoDate,
     passwordChangedAt |-> NoDate, lastLogin |-> NoDate]

\* user.password = newPassword; user.save(): the new password is hashed and
\* the time of the change is recorded.
SavePassword(user, newPassword, t) ==
    [user EXCEPT !.password = Bcrypt(newPassword), !.passwordChangedAt = t]

\* User.findOne({ email }): the ids that match, and the document it returns.
FindByEmail(us, email) == {id \in DOMAIN us : us[id].email = email}
TheUser(found) == CHOOSE id \in found : TRUE

-----------------------------------------------------------------------------
\* Requests and responses

NoHeader == [scheme |-> "", token |-> NoToken]
Bearer(token) == [scheme |-> "Bearer ", token |-> token]

Req == [email |-> Missing, password |-> Missing, token |-> Missing, newPassword |-> Missing,
        firstName |-> Missing, lastName |-> Missing, role |-> Undefined,
        cookie |-> NoToken, authorization |-> NoHeader]

\* res.status(statusCode).json({message, ...}), with the cookies it set and
\* the cookies it cleared, the single-use secret the body carries and the
\* account the request is about.
Sent(statusCode, message) ==
    [statusCode |-> statusCode, error |-> "", message |-> message,
     token |-> NoToken, refreshToken |-> NoToken, cleared |-> {}, secret |-> Missing, user |-> 0]

\* A failure handed to next(): the error handler answers with the error's
\* status and message; nothing else of the response was built.
Thrown(err) ==
    [statusCode |-> err.statusCode, error |-> err.name, message |-> err.message,
     token |-> NoToken, refreshToken |-> NoToken, cleared |-> {}, secret |-> Missing, user |-> 0]

SessionEntry(id, role, t) ==
    [kind |-> "session", id |-> id, role |-> role, at |-> t, token |-> generateToken(id, role, t)]
RefreshEntry(id, t) ==
    [kind |-> "refresh", id |-> id, role |-> Undefined, at |-> t, token |-> generateRefreshToken(id, t)]

\* What a handler leaves behind: the collection, the response, the tokens issued.
Outcome(us, res, issued) == [users |-> us, res |-> res, issued |-> issued]

-----------------------------------------------------------------------------
\* controllers/authController

\* A register that removes the account again when a mail fails.
RegisterRollsBack(us, id, body, secret, mail, t) ==
    IF body.firstName = Missing \/ body.lastName = Missing
         \/ body.email = Missing \/ body.password = Missing
    THEN Outcome(us, Thrown(ValidationError("All fields are required")), {})
    ELSE IF FindByEmail(us, body.email) # {}
    THEN Outcome(us, Thrown(ValidationError("Email already in use")), {})
    ELSE LET gen == generateEmailVerificationToken(secret, t)
             user == [NewUser(body) EXCEPT !.emailVerificationToken = gen.hashedToken,
                                           !.emailVerificationExpires = gen.expires]
             saved == (id :> user) @@ us
         IN  IF mail # "sent"
             THEN Outcome(us, Thrown(MailError), {})
             ELSE Outcome(saved,
                          [Sent(201, "User registered successfully. Please verify your email.")
                             EXCEPT !.token = generateToken(id, user.role, t),
                                    !.refreshToken = generateRefreshToken(id, t),
                                    !.secret = gen.token,
                                    !.user = id],
                          {SessionEntry(id, user.role, t), RefreshEntry(id, t)})

\* register; `id` is the _id User.create assigns, `secret` what
\* generateRandomToken draws, `mail` which of the two mails fails, if any.
register(us, id, body, secret, mail, t) ==
    IF body.firstName = Missing \/ body.lastName = Missing
         \/ body.email = Missing \/ body.password = Missing
    THEN Outcome(us, Thrown(ValidationError("All fields are required")), {})
    ELSE IF FindByEmail(us, body.email) # {}
    THEN Outcome(us, Thrown(ValidationError("Email already in use")), {})
    ELSE LET gen == generateEmailVerificationToken(secret, t)
             user == [NewUser(body) EXCEPT !.emailVerificationToken = gen.hashedToken,
                                           !.emailVerificationExpires = gen.expires]
             saved == (id :> user) @@ us
         IN  IF mail # "sent"
             THEN Outcome(saved, Thrown(MailError), {})
             ELSE Outcome(saved,
                          [Sent(201, "User registered successfully. Please verify your email.")
                             EXCEPT !.token = generateToken(id, user.role, t),
                                    !.refreshToken = generateRefreshToken(id, t),
                                    !.secret = gen.token,
                                    !.user = id],
                          {SessionEntry(id, user.role, t), RefreshEntry(id, t)})

\* The error login throws when the user is not found or the password is wrong.
IncorrectCredentialsTelling(userFound) ==
    IF userFound THEN AuthenticationError("Incorrect password")
    ELSE AuthenticationError("No user found with that email")

IncorrectCredentials(userFound) == AuthenticationError("Incorrect email or password")

login(us, body, t) ==
    IF body.email = Missing \/ body.password = Missing
    THEN Outcome(us, Thrown(ValidationError("Email and password are required")), {})
    ELSE LET found == FindByEmail(us, body.email)
             id == TheUser(found)
         IN  IF found = {} \/ ~correctPassword(body.password, us[id].password)
             THEN Outcome(us, Thrown(IncorrectCredentials(found # {})), {})
             ELSE LET user == us[id]
                  IN  IF ~user.isActive
                      THEN Outcome(us, Thrown(AuthenticationError("User account is deactivated")), {})
                      ELSE Outcome([us EXCEPT ![id].lastLogin = t],
                                   [Sent(200, "Login successful")
                                      EXCEPT !.token = generateToken(id, user.role, t),
                                             !.refreshToken = generateRefreshToken(id, t),
                                             !.user = id],
                                   {SessionEntry(id, user.role, t), RefreshEntry(id, t)})

\* A logout that ends the session on the server: the account the cookie's
\* token names is no longer active.
LogoutEndsSession(us, cookie) ==
    Outcome([id \in DOMAIN us |->
                IF id = cookie.payload.id THEN [us[id] EXCEPT !.isActive = FALSE] ELSE us[id]],
            [Sent(200, "Logged out successfully") EXCEPT !.cleared = {"token", "refreshToken"}],
            {})

\* logout: res.clearCookie twice and the response; nothing is read or written.
logout(us, cookie) ==
    Outcome(us,
            [Sent(200, "Logged out successfully") EXCEPT !.cleared = {"token", "refreshToken"}],
            {})

NoVerificationToken == "No verification token found"
VerificationExpired == "Verification token has expired"
InvalidVerificationToken == "Invalid verification token"

\* verifyEmail's checks of the stored token against the presented one, in the
\* order the handler makes them; "" when they all pass.
VerifyEmailChecksHashFirst(user, token, t) ==
    IF user.emailVerificationToken = NoHash \/ user.emailVerificationExpires = NoDate
    THEN NoVerificationToken
    ELSE IF ~verifyEmailToken(token, user.emailVerificationToken)
    THEN InvalidVerificationToken
    ELSE IF user.emailVerificationExpires < t
    THEN VerificationExpired
    ELSE ""

verifyEmailChecks(user, token, t) ==
    IF user.emailVerificationToken = NoHash \/ user.emailVerificationExpires = NoDate
    THEN NoVerificationToken
    ELSE IF user.emailVerificationExpires < t
    THEN VerificationExpired
    ELSE IF ~verifyEmailToken(token, user.emailVerificationToken)
    THEN InvalidVerificationToken
    ELSE ""

\* verifyEmail's writes on success.
MarkVerifiedKeepToken(user) == [user EXCEPT !.isEmailVerified = TRUE]

markVerified(user) ==
    [user EXCEPT !.isEmailVerified = TRUE,
                 !.emailVerificationToken = NoHash,
                 !.emailVerificationExpires = NoDate]

verifyEmail(us, body, t) ==
    IF body.email = Missing \/ body.token = Missing
    THEN Outcome(us, Thrown(ValidationError("Email and token are required")), {})
    ELSE LET found == FindByEmail(us, body.email)
         IN  IF found = {}
             THEN Outcome(us, Thrown(AuthenticationError("Invalid email or token")), {})
             ELSE LET id == TheUser(found)
                      failure == verifyEmailChecks(us[id], body.token, t)
                  IN  IF failure # ""
                      THEN Outcome(us, Thrown(AuthenticationError(failure)), {})
                      ELSE Outcome([us EXCEPT ![id] = markVerified(@)],
                                   [Sent(200, "Email verified successfully") EXCEPT !.user = id],
                                   {})

requestPasswordReset(us, body, secret, mail, t) ==
    IF body.email = Missing
    THEN Outcome(us, Thrown(ValidationError("Email is required")), {})
    ELSE LET found == FindByEmail(us, body.email)
         IN  IF found = {}
             THEN Outcome(us, Thrown(AuthenticationError("No user found with that email")), {})
             ELSE LET id == TheUser(found)
                      gen == generatePasswordResetToken(secret, t)
                      saved == [us EXCEPT ![id].passwordResetToken = gen.hashedToken,
                                          ![id].passwordResetExpires = gen.expires]
                  IN  IF mail # "sent"
                      THEN Outcome(saved, Thrown(MailError), {})
                      ELSE Outcome(saved,
                                   [Sent(200, "Password reset token sent to email")
                                      EXCEPT !.secret = gen.token, !.user = id],
                                   {})

NoResetToken == "No password reset token found"
ResetExpired == "Password reset token has expired"
InvalidResetToken == "Invalid password reset token"

resetPasswordChecks(user, token, t) ==
    IF user.passwordResetToken = NoHash \/ user.passwordResetExpires = NoDate
    THEN NoResetToken
    ELSE IF user.passwordResetExpires < t
    THEN ResetExpired
    ELSE IF ~verifyPasswordResetToken(token, user.passwordResetToken,
                                      user.passwordResetExpires, t).isValid
    THEN InvalidResetToken
    ELSE ""

\* A resetPassword that gives up the stored token when the presented secret
\* fails a check.
ResetPasswordBurnsToken(us, body, t) ==
    IF body.email = Missing \/ body.token = Missing \/ body.newPassword = Missing
    THEN Outcome(us, Thrown(ValidationError("All fields are required")), {})
    ELSE LET found == FindByEmail(us, body.email)
         IN  IF found = {}
             THEN Outcome(us, Thrown(AuthenticationError("Invalid email or token")), {})
             ELSE LET id == TheUser(found)
                      failure == resetPasswordChecks(us[id], body.token, t)
                  IN  IF failure # ""
                      THEN Outcome([us EXCEPT ![id].passwordResetToken = NoHash,
                                              ![id].passwordResetExpires = NoDate],
                                   Thrown(AuthenticationError(failure)), {})
                      ELSE Outcome([us EXCEPT ![id] =
                                       [SavePassword(@, body.newPassword, t)
                                          EXCEPT !.passwordResetToken = NoHash,
                                                 !.passwordResetExpires = NoDate]],
                                   [Sent(200, "Password reset successful") EXCEPT !.user = id],
                                   {})

resetPassword(us, body, t) ==
    IF body.email = Missing \/ body.token = Missing \/ body.newPassword = Missing
    THEN Outcome(us, Thrown(ValidationError("All fields are required")), {})
    ELSE LET found == FindByEmail(us, body.email)
         IN  IF found = {}
             THEN Outcome(us, Thrown(AuthenticationError("Invalid email or token")), {})
             ELSE LET id == TheUser(found)
                      failure == resetPasswordChecks(us[id], body.token, t)
                  IN  IF failure # ""
                      THEN Outcome(us, Thrown(AuthenticationError(failure)), {})
                      ELSE Outcome([us EXCEPT ![id] =
                                       [SavePassword(@, body.newPassword, t)
                                          EXCEPT !.passwordResetToken = NoHash,
                                                 !.passwordResetExpires = NoDate]],
                                   [Sent(200, "Password reset successful") EXCEPT !.user = id],
                                   {})

\* User.findOne({ email }) as resetPassword awaits it: the document read.
ResetRead(us, email) ==
    LET found == FindByEmail(us, email)
    IN  IF found = {} THEN [found |-> FALSE, id |-> 0, doc |-> NewUser(Req)]
        ELSE [found |-> TRUE, id |-> TheUser(found), doc |-> us[TheUser(found)]]

\* user.save() at the end of resetPassword: the modified paths (password,
\* passwordResetToken, passwordResetExpires) are written to the stored
\* document, whatever it holds by then.
SaveReset(us, read, newPassword, t) ==
    [us EXCEPT ![read.id] =
        [SavePassword(@, newPassword, t)
           EXCEPT !.passwordResetToken = NoHash, !.passwordResetExpires = NoDate]]

\* resetPassword from the point where findOne has answered `read`.
resetPasswordFrom(us, body, read, t) ==
    IF body.email = Missing \/ body.token = Missing \/ body.newPassword = Missing
    THEN Outcome(us, Thrown(ValidationError("All fields are required")), {})
    ELSE IF ~read.found
    THEN Outcome(us, Thrown(AuthenticationError("Invalid email or token")), {})
    ELSE LET failure == resetPasswordChecks(read.doc, body.token, t)
         IN  IF failure # ""
             THEN Outcome(us, Thrown(AuthenticationError(failure)), {})
             ELSE Outcome(SaveReset(us, read, body.newPassword, t),
                          [Sent(200, "Password reset successful") EXCEPT !.user = read.id],
                          {})

-----------------------------------------------------------------------------
\* middleware/auth: protect

\* extractTokenFromHeader: the token after 'Bearer ', NoToken when it throws.
extractTokenFromHeader(authHeader) ==
    IF authHeader = NoHeader \/ authHeader.scheme # "Bearer " THEN NoToken ELSE authHeader.token

\* parseInt(currentUser.passwordChangedAt.getTime() / 1000, 10)
changedTimestamp(user) == user.passwordChangedAt \div MsPerSec

\* A protect that looks at the Authorization header before the cookie.
ProtectTokenHeaderFirst(cookie, authHeader) ==
    IF authHeader # NoHeader
    THEN [token |-> extractTokenFromHeader(authHeader), headerRead |-> TRUE]
    ELSE [token |-> cookie, headerRead |-> TRUE]

\* protect, step 1: the token, and whether req.headers.authorization was read.
protectToken(cookie, authHeader) ==
    IF cookie # NoToken THEN [token |-> cookie, headerRead |-> FALSE]
    ELSE IF authHeader # NoHeader
    THEN [token |-> extractTokenFromHeader(authHeader), headerRead |-> TRUE]
    ELSE [token |-> NoToken, headerRead |-> TRUE]

\* A protect that trusts the verified token and loads no account.
ProtectUserNoLookup(us, decoded) == [Sent(200, "") EXCEPT !.user = decoded.id]

\* A protect that does not look at isActive.
ProtectUserSkipsActive(us, decoded) ==
    IF decoded.id \notin DOMAIN us
    THEN Thrown(AuthenticationError("User no longer exists"))
    ELSE [Sent(200, "") EXCEPT !.user = decoded.id]

\* protect, steps 3 to 5 and next(), once the token is verified: the response
\* is the error thrown, or 200 with req.user bound (user).
protectUser(us, decoded) ==
    IF decoded.id \notin DOMAIN us
    THEN Thrown(AuthenticationError("User no longer exists"))
    ELSE IF ~us[decoded.id].isActive
    THEN Thrown(AuthenticationError("User account is deactivated"))
    ELSE IF us[decoded.id].passwordChangedAt # NoDate
            /\ decoded.iat < changedTimestamp(us[decoded.id])
    THEN Thrown(AuthenticationError("User recently changed password! Please log in again"))
    ELSE [Sent(200, "") EXCEPT !.user = decoded.id]

\* protect as it runs: its response, whether the header was read, and whether
\* User.findById was called.
protectRun(us, cookie, authHeader, t) ==
    LET got == protectToken(cookie, authHeader)
        v == verifyToken(got.token, t)
    IN  IF got.token = NoToken
        THEN [res |-> Thrown(AuthenticationError("No token provided")),
              headerRead |-> got.headerRead, lookup |-> FALSE]
        ELSE IF ~v.ok
        THEN [res |-> Thrown(AuthenticationError(v.error)),
              headerRead |-> got.headerRead, lookup |-> FALSE]
        ELSE [res |-> protectUser(us, v.payload),
              headerRead |-> got.headerRead, lookup |-> TRUE]

protect(us, cookie, authHeader, t) == protectRun(us, cookie, authHeader, t).res

-----------------------------------------------------------------------------
\* middleware/auth restrictTo, models/Course and controllers/courseController

hasRole(userRole, requiredRoles) == userRole \in requiredRoles

\* req.user when no account is bound to the request.
NoUser == [id |-> 0, role |-> Undefined]

\* The result of a middleware or of a check that lets the request go on.
Passed == Sent(0, "")

\* A restrictTo that lets every bound account through.
RestrictToAnyBound(roles, user) ==
    IF user = NoUser
    THEN Thrown(AuthenticationError("You must be logged in to access this resource"))
    ELSE Passed

restrictTo(roles, user) ==
    IF user = NoUser
    THEN Thrown(AuthenticationError("You must be logged in to access this resource"))
    ELSE IF ~hasRole(user.role, roles)
    THEN Thrown(AuthorizationError("You do not have permission to perform this action"))
    ELSE Passed

\* maxStudents: null, "unlimited".
NoMax == 0

\* Course.create(...): an empty roster, document version 0.
NewCourse(maxStudents) == [maxStudents |-> maxStudents, enrolledStudents |-> <<>>, v |-> 0]

\* Course.findById(id): null when there is no such document.
NoCourse == [found |-> FALSE, doc |-> NewCourse(NoMax)]
findById(cs, id) == IF id \in DOMAIN cs THEN [found |-> TRUE, doc |-> cs[id]] ELSE NoCourse

\* A ceiling that lets one account too many in.
IsEnrollmentFullStrict(course) ==
    IF course.maxStudents = NoMax THEN FALSE
    ELSE Len(course.enrolledStudents) > course.maxStudents

isEnrollmentFull(course) ==
    IF course.maxStudents = NoMax THEN FALSE
    ELSE Len(course.enrolledStudents) >= course.maxStudents

\* enrolledStudents.some(...) / find(...): is the account on the roster?
OnRoster(course, userId) ==
    \E i \in 1..Len(course.enrolledStudents) : course.enrolledStudents[i] = userId

\* enrolledStudents.findIndex(...), 1-based; 0 when there is no entry.
findIndex(course, userId) ==
    IF OnRoster(course, userId)
    THEN CHOOSE i \in 1..Len(course.enrolledStudents) :
            /\ course.enrolledStudents[i] = userId
            /\ \A j \in 1..(i - 1) : course.enrolledStudents[j] # userId
    ELSE 0

\* splice(index): everything from index on is removed.
SpliceToEnd(s, index) == SubSeq(s, 1, index - 1)

\* enrolledStudents.splice(index, 1)
Splice(s, index) == SubSeq(s, 1, index - 1) \o SubSeq(s, index + 1, Len(s))

\* What save() rejects with when the stored document's version moved on.
VersionError == [statusCode |-> 500, name |-> "VersionError", message |-> "No matching document found"]

\* course.save() after enrolledStudents.push(...): a $push onto the stored
\* array, which also increments the document version.
SavePush(cs, id, userId) ==
    [cs EXCEPT ![id].enrolledStudents = Append(@, userId), ![id].v = @ + 1]

\* course.save() after enrolledStudents.splice(...): the whole array is $set,
\* on the condition that the stored version is still the one that was read.
SaveSplice(cs, id, doc, index) ==
    [cs EXCEPT ![id].enrolledStudents = Splice(doc.enrolledStudents, index), ![id].v = @ + 1]

\* What a course handler leaves behind: the collection and the response.
CourseOutcome(cs, res) == [courses |-> cs, res |-> res]

\* The alreadyEnrolled rejection of enrollInCourse.
AlreadyEnrolled == AppError("You are already enrolled in this course", 400)

\* enrollInCourse from the point where findById has answered `read`.
enrollInCourse(cs, id, user, read) ==
    IF ~read.found THEN CourseOutcome(cs, Thrown(NotFoundError("Course")))
    ELSE IF user.role \notin {"student", "jobseeker"}
    THEN CourseOutcome(cs, Thrown(AuthorizationError("Only students or jobseekers can enroll")))
    ELSE IF OnRoster(read.doc, user.id)
    THEN CourseOutcome(cs, Thrown(AlreadyEnrolled))
    ELSE IF isEnrollmentFull(read.doc)
    THEN CourseOutcome(cs, Thrown(AppError("Course enrollment is full", 400)))
    ELSE CourseOutcome(SavePush(cs, id, user.id), Sent(200, "Enrolled in course successfully"))

\* unenrollFromCourse from the point where findById has answered `read`.
unenrollFromCourse(cs, id, user, read) ==
    IF ~read.found THEN CourseOutcome(cs, Thrown(NotFoundError("Course")))
    ELSE IF findIndex(read.doc, user.id) = 0
    THEN CourseOutcome(cs, Thrown(AppError("You are not enrolled in this course", 400)))
    ELSE IF cs[id].v # read.doc.v
    THEN CourseOutcome(cs, Thrown(VersionError))
    ELSE CourseOutcome(SaveSplice(cs, id, read.doc, findIndex(read.doc, user.id)),
                       Sent(200, "Unenrolled from course successfully"))

\* createCourse; `complete` says whether the body has the required fields.
createCourse(cs, complete, maxStudents) ==
    IF ~complete THEN CourseOutcome(cs, Thrown(ValidationError("Missing required fields")))
    ELSE CourseOutcome(Append(cs, NewCourse(maxStudents)), Sent(201, ""))

\* A request to the course routes: the bound account, :id, and what findById answered.
CourseReq(op, user, courseId, read) == [op |-> op, user |-> user, courseId |-> courseId, read |-> read]

-----------------------------------------------------------------------------
\* middleware/auth: optionalAuth, isOwner, and protect followed by restrictTo

\* The account protect binds: req.user = currentUser.
Bound(us, id) == [id |-> id, role |-> IF id \in DOMAIN us THEN us[id].role ELSE Undefined]

\* What optionalAuth does with the request: the error it hands to next, if
\* any, how often it calls next, and the account it binds (0: none).
PassedOn(user) == [nextCalls |-> 1, error |-> "", user |-> user]

\* An optionalAuth without its try/catch: a failed credential is an error.
OptionalAuthNoCatch(us, authHeader, t, lookupFails) ==
    LET v == verifyToken(extractTokenFromHeader(authHeader), t)
    IN  IF authHeader = NoHeader THEN PassedOn(0)
        ELSE IF authHeader.scheme # "Bearer " \/ ~v.ok \/ lookupFails
        THEN [nextCalls |-> 1, error |-> "AuthenticationError", user |-> 0]
        ELSE IF v.payload.id \in DOMAIN us /\ us[v.payload.id].isActive
        THEN PassedOn(v.payload.id)
        ELSE PassedOn(0)

\* optionalAuth; lookupFails says that User.findById rejects.
optionalAuth(us, authHeader, t, lookupFails) ==
    LET v == verifyToken(extractTokenFromHeader(authHeader), t)
    IN  IF authHeader = NoHeader THEN PassedOn(0)
        ELSE IF authHeader.scheme # "Bearer " \/ ~v.ok \/ lookupFails
        THEN PassedOn(0)
        ELSE IF v.payload.id \in DOMAIN us /\ us[v.payload.id].isActive
        THEN PassedOn(v.payload.id)
        ELSE PassedOn(0)

\* A resource as isOwner sees it: found or not, and its owner, user and
\* instructor references (NoRef: the document has no such field).
NoRef == 0
Resource(found, owner, user, instructor) ==
    [found |-> found, owner |-> owner, user |-> user, instructor |-> instructor]

\* resource.owner || resource.user || resource.instructor
ownerField(resource) ==
    IF resource.owner # NoRef THEN resource.owner
    ELSE IF resource.user # NoRef THEN resource.user
    ELSE resource.instructor

\* throw new Error('Resource not found') is an error without a status.
isOwner(user, resource) ==
    IF user = NoUser
    THEN Thrown(AuthenticationError("You must be logged in to access this resource"))
    ELSE IF ~resource.found THEN Thrown([statusCode |-> 500, name |-> "Error", message |-> "Resource not found"])
    ELSE IF user.role \in {"admin", "manager"} THEN Passed
    ELSE IF ownerField(resource) # NoRef /\ ownerField(resource) # user.id
    THEN Thrown(AuthorizationError("You can only access your own resources"))
    ELSE Passed

\* A route declared as protect, handler: what reaches the handler.
protectedRoute(us, cookie, authHeader, t) ==
    LET p == protectRun(us, cookie, authHeader, t)
    IN  IF p.res.statusCode # 200
        THEN [res |-> p.res, user |-> NoUser, handlerRan |-> FALSE]
        ELSE [res |-> Passed, user |-> Bound(us, p.res.user), handlerRan |-> TRUE]

\* A route declared as protect, restrictTo(roles), handler.
restrictedRoute(us, roles, cookie, authHeader, t) ==
    LET p == protectedRoute(us, cookie, authHeader, t)
        g == restrictTo(roles, p.user)
    IN  IF ~p.handlerRan THEN p
        ELSE IF g # Passed THEN [res |-> g, user |-> p.user, handlerRan |-> FALSE]
        ELSE p

-----------------------------------------------------------------------------
\* adminController and userController: the handlers that change accounts

\* User.findByIdAndUpdate(id, updates): the body sets one of the allowed fields.
ApplyUpdate(user, update) ==
    IF update.field = "isActive" THEN [user EXCEPT !.isActive = update.value]
    ELSE [user EXCEPT !.role = update.value]

\* adminController.updateUser
updateUser(us, id, update) ==
    IF id \notin DOMAIN us THEN Outcome(us, Thrown(NotFoundError("User")), {})
    ELSE Outcome([us EXCEPT ![id] = ApplyUpdate(us[id], update)], Sent(200, "User updated"), {})

\* User.findByIdAndDelete(id)
Delete(us, id) == [i \in DOMAIN us \ {id} |-> us[i]]

\* adminController.deleteUser
adminDeleteUser(us, id) ==
    IF id \notin DOMAIN us THEN Outcome(us, Thrown(NotFoundError("User")), {})
    ELSE Outcome(Delete(us, id), Sent(200, "User deleted"), {})

\* userController.deleteUser: the caller deletes its own account.
deleteUser(us, user) ==
    IF user.id \notin DOMAIN us THEN Outcome(us, Thrown(AuthenticationError("User not found")), {})
    ELSE Outcome(Delete(us, user.id), Sent(200, "User deleted successfully"), {})

\* A request through the access middleware or an account route, as it ran.
MwRun(op, cookie, header, roles, target, resource, res, ran) ==
    [op |-> op, cookie |-> cookie, header |-> header, roles |-> roles, target |-> target,
     resource |-> resource, res |-> res, headerRead |-> ran.headerRead, lookup |-> ran.lookup,
     nextCalls |-> ran.nextCalls, handlerRan |-> ran.handlerRan, user |-> ran.user]
Ran(headerRead, lookup, nextCalls, handlerRan, user) ==
    [headerRead |-> headerRead, lookup |-> lookup, nextCalls |-> nextCalls,
     handlerRan |-> handlerRan, user |-> user]
NoRun == MwRun("", NoToken, NoHeader, {}, 0, Resource(FALSE, NoRef, NoRef, NoRef), Sent(0, ""),
               Ran(FALSE, FALSE, 0, FALSE, NoUser))

-----------------------------------------------------------------------------
\* utils/errorHandler and the handlers' own catch blocks

\* An error object as the handlers see it. statusCode 0 and status "" stand
\* for properties that are not set; nameOwn says whether `name` is an own
\* enumerable property (and so survives { ...err }) or sits on the prototype;
\* hasErrmsg whether err.errmsg holds a quoted value.
ErrorObject(name, nameOwn, statusCode, status, isOperational, code, hasErrmsg, message, stack) ==
    [name |-> name, nameOwn |-> nameOwn, statusCode |-> statusCode, status |-> status,
     isOperational |-> isOperational, code |-> code, hasErrmsg |-> hasErrmsg,
     message |-> message, stack |-> stack]

\* An error of utils/errors: operational, status 'fail' for a 4xx code.
Operational(e, stack) ==
    ErrorObject(e.name, TRUE, e.statusCode,
                IF e.statusCode \in 400..499 THEN "fail" ELSE "error",
                TRUE, 0, FALSE, e.message, stack)

\* A response, or none: who sent it and what the body carries.
Response(by, statusCode, status, message, stack, details) ==
    [sent |-> TRUE, by |-> by, statusCode |-> statusCode, status |-> status,
     message |-> message, stack |-> stack, details |-> details]
NoResponse ==
    [sent |-> FALSE, by |-> "", statusCode |-> 0, status |-> "", message |-> "",
     stack |-> "", details |-> ""]

sendErrorDev(err) ==
    Response("globalErrorHandler", err.statusCode, err.status, err.message, err.stack, "")

GenericMessage == "Something went wrong!"

\* A production response that hands out the message of any error.
SendErrorProdLeaks(err) ==
    IF err.isOperational
    THEN Response("globalErrorHandler", err.statusCode, err.status, err.message, "", "")
    ELSE Response("globalErrorHandler", 500, "error", err.message, "", "")

sendErrorProd(err) ==
    IF err.isOperational
    THEN Response("globalErrorHandler", err.statusCode, err.status, err.message, "", "")
    ELSE Response("globalErrorHandler", 500, "error", GenericMessage, "", "")

\* let error = { ...err }; error.message = err.message: own enumerable
\* properties only, so a name on the prototype and the stack are not copied.
Spread(err) == [err EXCEPT !.name = IF err.nameOwn THEN @ ELSE Undefined, !.stack = ""]

\* The code of a duplicate-key error.
DuplicateKey == 11000

\* The production branch's conversions, applied in the order of the code.
\* The messages built from err.path, err.value, err.errmsg and err.errors are
\* given without their variable part.
handleCastErrorDB(error) ==
    IF error.name = "CastError" THEN Operational(AppError("Invalid <path>: <value>", 400), "")
    ELSE error
handleDuplicateFieldsDB(error) ==
    IF error.code = DuplicateKey
    THEN Operational(AppError("Duplicate field value: <value>. Please use another value!", 400), "")
    ELSE error
handleValidationErrorDB(error) ==
    IF error.name = "ValidationError"
    THEN Operational(AppError("Invalid input data. <messages>", 400), "")
    ELSE error
handleJWTError(error) ==
    IF error.name = "JsonWebTokenError"
    THEN Operational(AppError("Invalid token. Please log in again!", 401), "")
    ELSE error
handleJWTExpiredError(error) ==
    IF error.name = "TokenExpiredError"
    THEN Operational(AppError("Your token has expired! Please log in again.", 401), "")
    ELSE error
\* (the three MulterError messages are not told apart)
handleMulterError(error) ==
    IF error.name = "MulterError" THEN Operational(AppError("File upload error.", 400), "")
    ELSE error
Converted(error) ==
    handleMulterError(handleJWTExpiredError(handleJWTError(
        handleValidationErrorDB(handleDuplicateFieldsDB(handleCastErrorDB(error))))))

\* err.errmsg.match(...)[0] throws when errmsg is missing or holds no quoted
\* value; the error raised inside the error handler is answered by the
\* framework's final handler.

\* process.env.NODE_ENV
Envs == {"development", "production", "test"}

globalErrorHandler(err, env) ==
    LET e == [err EXCEPT !.statusCode = IF @ = 0 THEN 500 ELSE @,
                         !.status = IF @ = "" THEN "error" ELSE @]
        error == Spread(e)
    IN  IF env = "development" THEN sendErrorDev(e)
        ELSE IF env = "production"
        THEN IF handleCastErrorDB(error).code = DuplicateKey /\ ~error.hasErrmsg
             THEN Response("express", 500, "", "Internal Server Error", "", "")
             ELSE sendErrorProd(Converted(error))
        ELSE NoResponse

\* catchAsync(fn): a failure of fn is handed to next, and so to globalErrorHandler.
catchAsync(err, env) == globalErrorHandler(err, env)

\* The handlers of the application and manager controllers and of the job
\* routes catch their failures themselves.
OwnCatchMessage ==
    [applyForJob |-> "Failed to submit application",
     withdrawApplication |-> "Failed to withdraw application",
     getDashboardData |-> "Failed to fetch dashboard data",
     createJob |-> "Failed to create job",
     getJobs |-> "Failed to fetch jobs"]
ownCatch(handler, err) ==
    IF handler = "applyForJob" /\ err.code = DuplicateKey
    THEN Response("handler", 400, "", "You have already applied for this job", "", "")
    ELSE Response("handler", 500, "", OwnCatchMessage[handler], "", err.message)

\* Handlers wrapped in catchAsync.
WrappedHandlers == {"register", "login", "enrollInCourse", "deleteUser", "updateUser", "protect"}

-----------------------------------------------------------------------------
\* models/Application and controllers/applicationController

Application(job, applicant) == [job |-> job, applicant |-> applicant]

\* Application.findOne({ job, applicant }): is there such a document?
findApplication(as, job, applicant) ==
    \E i \in 1..Len(as) : as[i] = Application(job, applicant)

\* What save() rejects with when the unique index (job, applicant) is violated.
DuplicateKeyError ==
    ErrorObject("MongoServerError", FALSE, 0, "", FALSE, DuplicateKey, TRUE,
                "E11000 duplicate key error", "stack D")

\* A collection without the unique index: every insert succeeds.
SaveApplicationNoIndex(as, doc) == [ok |-> TRUE, apps |-> Append(as, doc)]

\* application.save(): an insert under the unique index on (job, applicant).
SaveApplication(as, doc) ==
    IF findApplication(as, doc.job, doc.applicant) THEN [ok |-> FALSE, apps |-> as]
    ELSE [ok |-> TRUE, apps |-> Append(as, doc)]

\* What the two reads of applyForJob answered: Job.findOne found an open job,
\* Application.findOne found an application of the applicant.
ApplyRead(jobFound, existing) == [jobFound |-> jobFound, existing |-> existing]

\* What an application handler leaves behind: the collection and the response.
JobOutcome(as, res) == [apps |-> as, res |-> res]

\* applyForJob from the point where its two findOne calls have answered.
applyForJob(as, job, applicant, read) ==
    IF ~read.jobFound
    THEN JobOutcome(as, Response("handler", 404, "", "Job not found or not available", "", ""))
    ELSE IF read.existing
    THEN JobOutcome(as, Response("handler", 400, "", "You have already applied for this job", "", ""))
    ELSE LET saved == SaveApplication(as, Application(job, applicant))
         IN  IF saved.ok
             THEN JobOutcome(saved.apps,
                             Response("handler", 201, "", "Application submitted successfully", "", ""))
             ELSE JobOutcome(as, ownCatch("applyForJob", DuplicateKeyError))

\* withdrawApplication: Application.findOneAndDelete({ job, applicant })
withdrawApplication(as, job, applicant) ==
    IF ~findApplication(as, job, applicant)
    THEN JobOutcome(as, Response("handler", 404, "", "Application not found", "", ""))
    ELSE LET i == CHOOSE k \in 1..Len(as) :
                     /\ as[k] = Application(job, applicant)
                     /\ \A j \in 1..(k - 1) : as[j] # Application(job, applicant)
         IN  JobOutcome(SubSeq(as, 1, i - 1) \o SubSeq(as, i + 1, Len(as)),
                        Response("handler", 200, "", "Application withdrawn successfully", "", ""))

\* A request to the application routes: the bound account, :jobId and what
\* the reads answered. `rivalSucceeded` records, for a request in flight,
\* that another request of the same pair in flight with it was answered 201.
JobReq(op, job, applicant, read) ==
    [op |-> op, job |-> job, applicant |-> applicant, read |-> read, rivalSucceeded |-> FALSE]

-----------------------------------------------------------------------------
\* server.js: gracefulShutdown, with the HTTP server and the database
\* connection it works on

\* process.exit has not been called.
Running == -1

\* The process after initializeServer: the server listens (it has a handle),
\* `conns` requests are in flight, `closeCbs` are the callbacks waiting for
\* the server's 'close' event ("ok": called without an error, "err": called
\* with ERR_SERVER_NOT_RUNNING), `timers` the pending force-shutdown timers,
\* `db` the state of the database connection, `exit` the exit code and `via`
\* the statement that called process.exit.
Started ==
    [listening |-> TRUE, conns |-> 0, served |-> 0, signals |-> 0, closeCbs |-> <<>>,
     timers |-> 0, db |-> "connected", exit |-> Running, via |-> ""]

\* server.close(callback): the callback waits for 'close'; on a server that
\* no longer listens it will be called with an error. The handle is released.
serverClose(p) ==
    [p EXCEPT !.closeCbs = Append(@, IF p.listening THEN "ok" ELSE "err"),
              !.listening = FALSE]

\* gracefulShutdown(signal): server.close(...) and setTimeout(..., 30000)
gracefulShutdown(p) ==
    [serverClose(p) EXCEPT !.timers = @ + 1, !.signals = @ + 1]

\* The server emits 'close' (no handle, no connection left): the callbacks
\* run in the order they were registered. The callback of a close that found
\* the server listening starts database.disconnect() and waits for it; a
\* callback called with an error calls process.exit(1).
emitClose(p) ==
    LET okCalled == \E i \in 1..Len(p.closeCbs) :
                       /\ p.closeCbs[i] = "ok"
                       /\ \A j \in 1..(i - 1) : p.closeCbs[j] # "err"
        errCalled == \E i \in 1..Len(p.closeCbs) : p.closeCbs[i] = "err"
        q == [p EXCEPT !.closeCbs = <<>>,
                       !.db = IF okCalled /\ @ = "connected" THEN "disconnecting" ELSE @]
    IN  IF errCalled THEN [q EXCEPT !.exit = 1, !.via = "server.close error"]
        ELSE q

\* The rest of the close callback once database.disconnect() has settled
\* (resolved, or rejected and logged): process.exit(0).
afterDisconnect(p, resolved) ==
    [p EXCEPT !.db = IF resolved THEN "closed" ELSE "disconnect failed",
              !.exit = 0, !.via = "close callback"]

\* The force-shutdown timer fires: process.exit(1).
forceShutdown(p) == [p EXCEPT !.exit = 1, !.via = "deadline", !.timers = @ - 1]

-----------------------------------------------------------------------------
\* The state after start-up

Init ==
    /\ now = ClockStart
    /\ ticks = 0
    /\ tokLog = {}
    /\ tokRes = [token |-> NoToken, at |-> 0, res |-> NoVerify]
    /\ suStored = [token |-> "", hashedToken |-> NoHash, expires |-> NoDate]
    /\ suRes = [token |-> "", at |-> 0, email |-> FALSE,
                reset |-> [isValid |-> FALSE, isExpired |-> FALSE]]
    /\ attempts = <<>>
    /\ rlOut = [n |-> 0, ip |-> "", at |-> 0, accepted |-> FALSE, statusCode |-> 0,
                message |-> "", lockedSince |-> NoDate]
    /\ rlAccepted = [ip \in Ips |-> <<>>]
    /\ rlLocked = [ip \in Ips |-> NoDate]
    /\ users = <<>>
    /\ nextId = 1
    /\ resp = [n |-> 0, op |-> "", req |-> Req, res |-> Sent(0, "")]
    /\ regLog = {}
    /\ verifiedOk = {}
    /\ courses = <<>>
    /\ inflight = <<>>
    /\ cresp = [n |-> 0, req |-> CourseReq("", NoUser, 0, NoCourse), res |-> Sent(0, "")]
    /\ mw = [n |-> 0, run |-> NoRun, loggedOut |-> {}]
    /\ eh = [n |-> 0, env |-> "", handler |-> "", err |-> ErrorObject("", FALSE, 0, "", FALSE, 0, FALSE, "", ""), res |-> NoResponse]
    /\ apps = <<>>
    /\ applying = <<>>
    /\ aresp = [n |-> 0, req |-> JobReq("", 0, 0, ApplyRead(FALSE, FALSE)), res |-> NoResponse]
    /\ resetInflight = <<>>
    /\ resetWins = [issued |-> {}, won |-> <<>>]
    /\ proc = Started

-----------------------------------------------------------------------------
\* The clock

Tick(deltas) ==
    /\ ticks < MaxTicks
    /\ \E d \in deltas : now' = now + d
    /\ ticks' = ticks + 1

-----------------------------------------------------------------------------
\* The token utility exercised on its own: SpecTok and SpecSu

TokTick ==
    /\ Tick({1, MsPerSec * ExpiresInSec, MsPerSec * RefreshExpiresInSec})
    /\ UNCHANGED <<tokVars, rlVars, authVars, courseVars, mwVars, moreVars>>

SuTick ==
    /\ Tick({1, PasswordResetLifetime, EmailVerificationLifetime})
    /\ UNCHANGED <<tokVars, rlVars, authVars, courseVars, mwVars, moreVars>>

TokGenerate ==
    /\ tokLog = {}
    /\ \E id \in UserIds, role \in Roles :
         tokLog' = tokLog \cup {[kind |-> "session", id |-> id, role |-> role, at |-> now,
                                 token |-> generateToken(id, role, now)]}
    /\ UNCHANGED <<now, ticks, tokRes, suStored, suRes, rlVars, authVars, courseVars, mwVars, moreVars>>

TokGenerateRefresh ==
    /\ tokLog = {}
    /\ \E id \in UserIds :
         tokLog' = tokLog \cup {[kind |-> "refresh", id |-> id, role |-> Undefined, at |-> now,
                                 token |-> generateRefreshToken(id, now)]}
    /\ UNCHANGED <<now, ticks, tokRes, suStored, suRes, rlVars, authVars, courseVars, mwVars, moreVars>>

TokVerify ==
    /\ \E tk \in Presentable :
         tokRes' = [token |-> tk, at |-> now, res |-> verifyToken(tk, now)]
    /\ UNCHANGED <<now, ticks, tokLog, suStored, suRes, rlVars, authVars, courseVars, mwVars, moreVars>>

SuGenerate ==
    /\ \E s \in Secrets :
         \/ suStored' = generateEmailVerificationToken(s, now)
         \/ suStored' = generatePasswordResetToken(s, now)
    /\ UNCHANGED <<now, ticks, tokLog, tokRes, suRes, rlVars, authVars, courseVars, mwVars, moreVars>>

SuVerify ==
    /\ suStored.hashedToken # NoHash
    /\ \E s \in Secrets :
         suRes' = [token |-> s, at |-> now,
                   email |-> verifyEmailToken(s, suStored.hashedToken),
                   reset |-> verifyPasswordResetToken(s, suStored.hashedToken, suStored.expires, now)]
    /\ UNCHANGED <<now, ticks, tokLog, tokRes, suStored, rlVars, authVars, courseVars, mwVars, moreVars>>
NextTok == TokTick \/ TokGenerate \/ TokGenerateRefresh \/ TokVerify

SpecTok == Init /\ [][NextTok]_vars

NextSu == SuTick \/ SuGenerate \/ SuVerify

SpecSu == Init /\ [][NextSu]_vars

-----------------------------------------------------------------------------
\* The limiter exercised by requests from several addresses: SpecRl

AuthRateLimit(ip) ==
    LET windowStart == now - windowMs
        cleaned == IF ip \in DOMAIN attempts
                   THEN (ip :> CleanOld(attempts[ip], windowStart)) @@ attempts
                   ELSE attempts
        currentAttempts == IF ip \in DOMAIN cleaned THEN cleaned[ip] ELSE <<>>
    IN  /\ rlOut.n < MaxRlRequests
        /\ IF LimitReached(currentAttempts)
           THEN /\ attempts' = cleaned
                /\ rlOut' = [n |-> rlOut.n + 1, ip |-> ip, at |-> now, accepted |-> FALSE,
                             statusCode |-> 401, message |-> TooManyAttempts,
                             lockedSince |-> rlLocked[ip]]
                /\ rlLocked' = [rlLocked EXCEPT ![ip] = Head(currentAttempts)]
                /\ UNCHANGED rlAccepted
           ELSE /\ attempts' = (ip :> Append(currentAttempts, now)) @@ cleaned
                /\ rlOut' = [n |-> rlOut.n + 1, ip |-> ip, at |-> now, accepted |-> TRUE,
                             statusCode |-> 0, message |-> "", lockedSince |-> rlLocked[ip]]
                /\ rlLocked' = [rlLocked EXCEPT ![ip] = NoDate]
                /\ rlAccepted' = [rlAccepted EXCEPT ![ip] = Append(@, now)]
        /\ UNCHANGED <<now, ticks, tokVars, authVars, courseVars, mwVars, moreVars>>

RlRequest == \E ip \in Ips : AuthRateLimit(ip)

RlTick ==
    /\ Tick({1, windowMs - 1})
    /\ UNCHANGED <<tokVars, rlVars, authVars, courseVars, mwVars, moreVars>>

NextRl == RlTick \/ RlRequest

SpecRl == Init /\ [][NextRl]_vars

-----------------------------------------------------------------------------
\* The auth routes and protect, one request at a time: Spec

RegisterRoles == {"student"}
RegisterPasswords == {"pw1"}
MailOutcomes == {"sent", "verification mail fails", "welcome mail fails"}
AuthSecrets == {"s1", "s2"}

Respond(op, req, res) ==
    resp' = [n |-> resp.n + 1, op |-> op, req |-> req, res |-> res]

AuthTick ==
    /\ Tick({PasswordResetLifetime, EmailVerificationLifetime})
    /\ UNCHANGED <<tokVars, rlVars, authVars, courseVars, mwVars, moreVars>>

Register ==
    /\ resp.n < MaxRequests
    /\ \E email \in Emails \cup {Missing}, password \in RegisterPasswords, role \in RegisterRoles,
          secret \in AuthSecrets, mail \in MailOutcomes :
         LET body == [Req EXCEPT !.firstName = "Ann", !.lastName = "Lee", !.email = email,
                                 !.password = password, !.role = role]
             out == register(users, nextId, body, secret, mail, now)
         IN  /\ users' = out.users
             /\ nextId' = IF nextId \in DOMAIN out.users THEN nextId + 1 ELSE nextId
             /\ tokLog' = tokLog \cup out.issued
             /\ Respond("register", body, out.res)
             /\ regLog' = IF out.res.statusCode = 201
                          THEN regLog \cup {[id |-> out.res.user, email |-> email,
                                             secret |-> out.res.secret,
                                             expires |-> out.users[out.res.user].emailVerificationExpires]}
                          ELSE regLog
    /\ UNCHANGED <<now, ticks, tokRes, suStored, suRes, rlVars, verifiedOk, courseVars, mwVars, moreVars>>

Login ==
    /\ resp.n < MaxRequests
    /\ \E email \in Emails \cup {Missing, Nobody}, password \in Passwords :
         LET body == [Req EXCEPT !.email = email, !.password = password]
             out == login(users, body, now)
         IN  /\ users' = out.users
             /\ tokLog' = tokLog \cup out.issued
             /\ Respond("login", body, out.res)
    /\ UNCHANGED <<now, ticks, tokRes, suStored, suRes, rlVars, nextId, regLog, verifiedOk, courseVars, mwVars, moreVars>>

VerifyEmail ==
    /\ resp.n < MaxRequests
    /\ \E email \in Emails \cup {Nobody}, token \in AuthSecrets \cup {Missing} :
         LET body == [Req EXCEPT !.email = email, !.token = token]
             out == verifyEmail(users, body, now)
         IN  /\ users' = out.users
             /\ Respond("verifyEmail", body, out.res)
             /\ verifiedOk' = IF out.res.statusCode = 200
                              THEN verifiedOk \cup {out.res.user} ELSE verifiedOk
    /\ UNCHANGED <<now, ticks, tokVars, rlVars, nextId, regLog, courseVars, mwVars, moreVars>>

RequestPasswordReset ==
    /\ resp.n < MaxRequests
    /\ \E email \in Emails \cup {Nobody}, secret \in AuthSecrets, mail \in {"sent", "reset mail fails"} :
         LET body == [Req EXCEPT !.email = email]
             out == requestPasswordReset(users, body, secret, mail, now)
         IN  /\ users' = out.users
             /\ Respond("requestPasswordReset", body, out.res)
    /\ UNCHANGED <<now, ticks, tokVars, rlVars, nextId, regLog, verifiedOk, courseVars, mwVars, moreVars>>

ResetPassword ==
    /\ resp.n < MaxRequests
    /\ \E email \in Emails \cup {Nobody}, token \in AuthSecrets, newPassword \in Passwords \cup {Missing} :
         LET body == [Req EXCEPT !.email = email, !.token = token, !.newPassword = newPassword]
             out == resetPassword(users, body, now)
         IN  /\ users' = out.users
             /\ Respond("resetPassword", body, out.res)
    /\ UNCHANGED <<now, ticks, tokVars, rlVars, nextId, regLog, verifiedOk, courseVars, mwVars, moreVars>>

\* A request through protect: the client sends a cookie it was given, or none.
Protect ==
    /\ resp.n < MaxRequests
    /\ \E cookie \in IssuedTokens \cup {NoToken}, header \in {NoHeader} :
         LET req == [Req EXCEPT !.cookie = cookie, !.authorization = header]
         IN  Respond("protect", req, protect(users, cookie, header, now))
    /\ UNCHANGED <<now, ticks, tokVars, rlVars, users, nextId, regLog, verifiedOk, courseVars, mwVars, moreVars>>

Next == AuthTick \/ Register \/ Login \/ VerifyEmail \/ RequestPasswordReset \/ ResetPassword \/ Protect

Spec == Init /\ [][Next]_vars

-----------------------------------------------------------------------------
\* The course routes: create, enroll and unenroll. A request to enroll or
\* unenroll is in flight between the answer of findById and its save.

\* The accounts protect binds to the requests: _id and role.
Callers == {[id |-> 1, role |-> "student"], [id |-> 2, role |-> "jobseeker"],
            [id |-> 3, role |-> "instructor"]}
CourseIds == 1..MaxCourses

CourseBudget == cresp.n + Len(inflight) < MaxCourseRequests

CourseRespond(req, res) == cresp' = [n |-> cresp.n + 1, req |-> req, res |-> res]

RemoveAt(s, i) == SubSeq(s, 1, i - 1) \o SubSeq(s, i + 1, Len(s))

\* POST /: protect, restrictTo('admin', 'manager', 'instructor'), createCourse
CreateCourse ==
    /\ CourseBudget
    /\ \E user \in Callers, complete \in BOOLEAN, maxStudents \in {NoMax, MaxStudentsCeiling} :
          LET gate == restrictTo({"admin", "manager", "instructor"}, user)
              out == IF gate # Passed THEN CourseOutcome(courses, gate)
                     ELSE createCourse(courses, complete, maxStudents)
          IN  /\ (gate = Passed /\ complete) => Len(courses) < MaxCourses
              /\ courses' = out.courses
              /\ CourseRespond(CourseReq("create", user, 0, NoCourse), out.res)
    /\ UNCHANGED <<now, ticks, tokVars, rlVars, authVars, inflight, mwVars, moreVars>>

\* The part of a roster route up to the answer of findById.
RosterLoad(op) ==
    /\ CourseBudget
    /\ \E user \in Callers, id \in CourseIds :
          LET gate == restrictTo({"student", "jobseeker"}, user)
          IN  IF gate # Passed
              THEN /\ CourseRespond(CourseReq(op, user, id, NoCourse), gate)
                   /\ UNCHANGED inflight
              ELSE /\ inflight' = Append(inflight, CourseReq(op, user, id, findById(courses, id)))
                   /\ UNCHANGED cresp
    /\ UNCHANGED <<now, ticks, tokVars, rlVars, authVars, courses, mwVars, moreVars>>

\* POST /:id/enroll: protect, restrictTo('student', 'jobseeker'), enrollInCourse
EnrollLoad == RosterLoad("enroll")

EnrollFinish ==
    /\ \E i \in 1..Len(inflight) :
          /\ inflight[i].op = "enroll"
          /\ LET r == inflight[i]
                 out == enrollInCourse(courses, r.courseId, r.user, r.read)
             IN  /\ courses' = out.courses
                 /\ CourseRespond(r, out.res)
          /\ inflight' = RemoveAt(inflight, i)
    /\ UNCHANGED <<now, ticks, tokVars, rlVars, authVars, mwVars, moreVars>>

\* POST /:id/unenroll: protect, restrictTo('student', 'jobseeker'), unenrollFromCourse
UnenrollLoad == RosterLoad("unenroll")

UnenrollFinish ==
    /\ \E i \in 1..Len(inflight) :
          /\ inflight[i].op = "unenroll"
          /\ LET r == inflight[i]
                 out == unenrollFromCourse(courses, r.courseId, r.user, r.read)
             IN  /\ courses' = out.courses
                 /\ CourseRespond(r, out.res)
          /\ inflight' = RemoveAt(inflight, i)
    /\ UNCHANGED <<now, ticks, tokVars, rlVars, authVars, mwVars, moreVars>>

NextCourse == CreateCourse \/ EnrollLoad \/ EnrollFinish \/ UnenrollLoad \/ UnenrollFinish
SpecCourse == Init /\ [][NextCourse]_vars

-----------------------------------------------------------------------------
\* The access middleware in front of the routes, with the account routes
\* that register, log in, deactivate and delete accounts.

\* The accounts that register: a student and an administrator.
AccessAccounts == {[email |-> "ann@x.io", role |-> "student"],
                   [email |-> "root@x.io", role |-> "admin"]}

\* What a client can put in the cookie or after 'Bearer ': a session token it
\* was issued, the same payload signed with its own key, or nothing.
SessionTokens == {e.token : e \in {x \in tokLog : x.kind = "session"}}
AccessTokens == SessionTokens \cup {Forge(tk) : tk \in SessionTokens} \cup {NoToken}
AccessHeaders == {NoHeader} \cup {Bearer(tk) : tk \in AccessTokens}
                    \cup {[scheme |-> "Basic ", token |-> tk] : tk \in SessionTokens}

\* The role lists of the routes declared as protect, restrictTo(...).
RouteRoles == {{"admin", "manager", "instructor"}, {"student", "jobseeker"}, {"admin", "manager"}}

\* The resources isOwner can be pointed at.
Resources == {Resource(FALSE, NoRef, NoRef, NoRef)}
                \cup {Resource(TRUE, o, NoRef, NoRef) : o \in {NoRef, 1, 2}}
                \cup {Resource(TRUE, NoRef, u, NoRef) : u \in {1, 2}}
                \cup {Resource(TRUE, NoRef, NoRef, i) : i \in {1, 2}}
                \cup {Resource(TRUE, 1, 2, NoRef), Resource(TRUE, 2, 1, NoRef)}

MwRespond(run) == mw' = [mw EXCEPT !.n = @ + 1, !.run = run]
AccountBody(a) == [Req EXCEPT !.firstName = "Ann", !.lastName = "Lee", !.email = a.email,
                              !.password = "pw1", !.role = a.role]
RouteRan(rt) == Ran(FALSE, rt.user # NoUser, IF rt.handlerRan THEN 1 ELSE 0, rt.handlerRan, rt.user)

\* POST /auth/register
AccessRegister ==
    /\ mw.n < MaxAccessRequests
    /\ \E a \in AccessAccounts :
         LET out == register(users, nextId, AccountBody(a), "s1", "sent", now)
         IN  /\ users' = out.users
             /\ nextId' = IF nextId \in DOMAIN out.users THEN nextId + 1 ELSE nextId
             /\ tokLog' = tokLog \cup out.issued
             /\ MwRespond(MwRun("register", NoToken, NoHeader, {}, out.res.user, NoRun.resource,
                                out.res, Ran(FALSE, TRUE, 0, TRUE, NoUser)))
    /\ UNCHANGED <<now, ticks, tokRes, suStored, suRes, rlVars, resp, regLog, verifiedOk, courseVars, eh, moreVars>>

\* POST /auth/login, with the account's password
AccessLogin ==
    /\ mw.n < MaxAccessRequests
    /\ \E a \in AccessAccounts :
         LET out == login(users, AccountBody(a), now)
             found == FindByEmail(users, a.email)
         IN  /\ users' = out.users
             /\ tokLog' = tokLog \cup out.issued
             /\ MwRespond(MwRun("login", NoToken, NoHeader, {},
                                IF found = {} THEN 0 ELSE TheUser(found), NoRun.resource,
                                out.res, Ran(FALSE, TRUE, 0, TRUE, NoUser)))
    /\ UNCHANGED <<now, ticks, tokRes, suStored, suRes, rlVars, nextId, resp, regLog, verifiedOk, courseVars, eh, moreVars>>

\* POST /auth/logout, by a client that holds a session cookie or none; the
\* tokens of the cookies cleared are remembered in mw.loggedOut.
AccessLogout ==
    /\ mw.n < MaxAccessRequests
    /\ \E cookie \in SessionTokens \cup {NoToken} :
         LET out == logout(users, cookie)
         IN  /\ users' = out.users
             /\ mw' = [n |-> mw.n + 1,
                       run |-> MwRun("logout", cookie, NoHeader, {}, 0, NoRun.resource, out.res,
                                     Ran(FALSE, FALSE, 0, TRUE, NoUser)),
                       loggedOut |-> mw.loggedOut \cup ({cookie} \ {NoToken})]
    /\ UNCHANGED <<now, ticks, tokVars, rlVars, nextId, resp, regLog, verifiedOk, courseVars, eh, moreVars>>

\* A request through protect
AccessProtect ==
    /\ mw.n < MaxAccessRequests
    /\ \E cookie \in AccessTokens, header \in AccessHeaders :
         LET p == protectRun(users, cookie, header, now)
         IN  MwRespond(MwRun("protect", cookie, header, {}, 0, NoRun.resource, p.res,
                             Ran(p.headerRead, p.lookup, IF p.res.statusCode = 200 THEN 1 ELSE 0,
                                 FALSE,
                                 IF p.res.statusCode = 200 THEN Bound(users, p.res.user) ELSE NoUser)))
    /\ UNCHANGED <<now, ticks, tokVars, rlVars, authVars, courseVars, eh, moreVars>>

\* A request through optionalAuth
AccessOptionalAuth ==
    /\ mw.n < MaxAccessRequests
    /\ \E header \in AccessHeaders, lookupFails \in BOOLEAN :
         LET o == optionalAuth(users, header, now, lookupFails)
         IN  MwRespond(MwRun("optionalAuth", NoToken, header, {}, 0, NoRun.resource,
                             IF o.error = "" THEN Passed
                             ELSE Thrown(AuthenticationError(o.error)),
                             Ran(TRUE, ~lookupFails /\ header # NoHeader, o.nextCalls, FALSE,
                                 IF o.user = 0 THEN NoUser ELSE Bound(users, o.user))))
    /\ UNCHANGED <<now, ticks, tokVars, rlVars, authVars, courseVars, eh, moreVars>>

\* A request through isOwner, for the account an earlier middleware bound (or none)
AccessIsOwner ==
    /\ mw.n < MaxAccessRequests
    /\ \E user \in {Bound(users, id) : id \in DOMAIN users} \cup {NoUser}, resource \in Resources :
         LET res == isOwner(user, resource)
         IN  MwRespond(MwRun("isOwner", NoToken, NoHeader, {}, 0, resource, res,
                             Ran(FALSE, FALSE, IF res = Passed THEN 1 ELSE 0, FALSE, user)))
    /\ UNCHANGED <<now, ticks, tokVars, rlVars, authVars, courseVars, eh, moreVars>>

\* A route declared as protect, restrictTo(roles), handler
AccessRestrictedRoute ==
    /\ mw.n < MaxAccessRequests
    /\ \E roles \in RouteRoles, cookie \in AccessTokens, header \in {NoHeader} :
         LET rt == restrictedRoute(users, roles, cookie, header, now)
         IN  MwRespond(MwRun("route", cookie, header, roles, 0, NoRun.resource, rt.res, RouteRan(rt)))
    /\ UNCHANGED <<now, ticks, tokVars, rlVars, authVars, courseVars, eh, moreVars>>

\* PATCH /admin/users/:id: protect, restrictTo('admin', 'manager'), updateUser
AdminUpdateUser ==
    /\ mw.n < MaxAccessRequests
    /\ \E cookie \in SessionTokens, id \in 1..Cardinality(AccessAccounts), isActive \in BOOLEAN :
         LET rt == restrictedRoute(users, {"admin", "manager"}, cookie, NoHeader, now)
             out == IF rt.handlerRan THEN updateUser(users, id, [field |-> "isActive", value |-> isActive])
                    ELSE Outcome(users, rt.res, {})
         IN  /\ users' = out.users
             /\ MwRespond(MwRun("updateUser", cookie, NoHeader, {"admin", "manager"}, id,
                                NoRun.resource, out.res, RouteRan(rt)))
    /\ UNCHANGED <<now, ticks, tokVars, rlVars, nextId, resp, regLog, verifiedOk, courseVars, eh, moreVars>>

\* DELETE /admin/users/:id: protect, restrictTo('admin', 'manager'), deleteUser
AdminDeleteUser ==
    /\ mw.n < MaxAccessRequests
    /\ \E cookie \in SessionTokens, id \in 1..Cardinality(AccessAccounts) :
         LET rt == restrictedRoute(users, {"admin", "manager"}, cookie, NoHeader, now)
             out == IF rt.handlerRan THEN adminDeleteUser(users, id)
                    ELSE Outcome(users, rt.res, {})
         IN  /\ users' = out.users
             /\ MwRespond(MwRun("adminDeleteUser", cookie, NoHeader, {"admin", "manager"}, id,
                                NoRun.resource, out.res, RouteRan(rt)))
    /\ UNCHANGED <<now, ticks, tokVars, rlVars, nextId, resp, regLog, verifiedOk, courseVars, eh, moreVars>>

\* DELETE /user/delete: protect, deleteUser
DeleteOwnAccount ==
    /\ mw.n < MaxAccessRequests
    /\ \E cookie \in SessionTokens :
         LET rt == protectedRoute(users, cookie, NoHeader, now)
             out == IF rt.handlerRan THEN deleteUser(users, rt.user)
                    ELSE Outcome(users, rt.res, {})
         IN  /\ users' = out.users
             /\ MwRespond(MwRun("deleteUser", cookie, NoHeader, {}, rt.user.id,
                                NoRun.resource, out.res, RouteRan(rt)))
    /\ UNCHANGED <<now, ticks, tokVars, rlVars, nextId, resp, regLog, verifiedOk, courseVars, eh, moreVars>>

NextAccess ==
    \/ AccessRegister \/ AccessLogin \/ AccessLogout \/ AccessProtect \/ AccessOptionalAuth \/ AccessIsOwner
    \/ AccessRestrictedRoute \/ AdminUpdateUser \/ AdminDeleteUser \/ DeleteOwnAccount
SpecAccess == Init /\ [][NextAccess]_vars

-----------------------------------------------------------------------------
\* Failures raised while a request is handled, and the responses to them

\* The failures a handler can end in: errors of utils/errors, plain
\* programming errors, errors that carry a status of their own, and the
\* library errors the production branch converts.
RaisedErrors ==
    {Operational(NotFoundError("Course"), "stack N"),
     Operational(AuthenticationError("Incorrect email or password"), "stack U"),
     ErrorObject("Error", FALSE, 0, "", FALSE, 0, FALSE, "boom A", "stack A"),
     ErrorObject("TypeError", FALSE, 0, "", FALSE, 0, FALSE, "boom B", "stack B"),
     ErrorObject("SyntaxError", FALSE, 400, "400", FALSE, 0, FALSE, "Unexpected token", "stack S"),
     ErrorObject("JsonWebTokenError", TRUE, 0, "", FALSE, 0, FALSE, "jwt malformed", "stack J"),
     ErrorObject("CastError", TRUE, 0, "", FALSE, 0, FALSE, "Cast to ObjectId failed", "stack C"),
     ErrorObject("CastError", FALSE, 0, "", FALSE, 0, FALSE, "Cast to ObjectId failed", "stack C"),
     ErrorObject("MongoServerError", FALSE, 0, "", FALSE, DuplicateKey, TRUE, "E11000 duplicate key", "stack D"),
     ErrorObject("MongoServerError", FALSE, 0, "", FALSE, DuplicateKey, FALSE, "E11000 duplicate key", "stack D")}

\* A handler wrapped in catchAsync fails. NODE_ENV is read from the
\* environment and stays what it is.
WrappedHandlerFails ==
    /\ eh.n < MaxFailures
    /\ \E handler \in WrappedHandlers, err \in RaisedErrors, env \in Envs :
          /\ eh.env \in {"", env}
          /\ eh' = [n |-> eh.n + 1, env |-> env, handler |-> handler, err |-> err,
                    res |-> catchAsync(err, env)]
    /\ UNCHANGED <<now, ticks, tokVars, rlVars, authVars, courseVars, mw, moreVars>>

\* A handler with its own try/catch fails.
OwnCatchHandlerFails ==
    /\ eh.n < MaxFailures
    /\ \E handler \in DOMAIN OwnCatchMessage, err \in RaisedErrors, env \in Envs :
          /\ eh.env \in {"", env}
          /\ eh' = [n |-> eh.n + 1, env |-> env, handler |-> handler, err |-> err,
                    res |-> ownCatch(handler, err)]
    /\ UNCHANGED <<now, ticks, tokVars, rlVars, authVars, courseVars, mw, moreVars>>

NextErr == WrappedHandlerFails \/ OwnCatchHandlerFails
SpecErr == Init /\ [][NextErr]_vars

-----------------------------------------------------------------------------
\* The application routes (behind protect): apply and withdraw. An apply
\* request is in flight between the answers of its findOne calls and its save.

\* The accounts protect binds, the :jobId values, and the jobs that are open.
Applicants == {1, 2}
JobIds == {1, 2}
OpenJobs == {1}

\* POST /jobs/:jobId/apply up to the answer of Application.findOne
ApplyLoad ==
    /\ aresp.n + Len(applying) < MaxJobRequests
    /\ \E job \in JobIds, applicant \in Applicants :
          applying' = Append(applying,
                             JobReq("apply", job, applicant,
                                    ApplyRead(job \in OpenJobs, findApplication(apps, job, applicant))))
    /\ UNCHANGED <<now, ticks, tokVars, rlVars, authVars, courseVars, mwVars, apps, aresp, resetVars, proc>>

\* POST /jobs/:jobId/apply from there on
ApplyFinish ==
    /\ \E i \in 1..Len(applying) :
          LET r == applying[i]
              out == applyForJob(apps, r.job, r.applicant, r.read)
          IN  /\ apps' = out.apps
              /\ aresp' = [n |-> aresp.n + 1, req |-> r, res |-> out.res]
              /\ applying' = [j \in 1..(Len(applying) - 1) |->
                                 LET q == RemoveAt(applying, i)[j]
                                 IN  IF out.res.statusCode = 201 /\ q.job = r.job
                                        /\ q.applicant = r.applicant
                                     THEN [q EXCEPT !.rivalSucceeded = TRUE]
                                     ELSE q]
    /\ UNCHANGED <<now, ticks, tokVars, rlVars, authVars, courseVars, mwVars, resetVars, proc>>

\* DELETE /jobs/:jobId/withdraw
Withdraw ==
    /\ aresp.n + Len(applying) < MaxJobRequests
    /\ \E job \in JobIds, applicant \in Applicants :
          LET out == withdrawApplication(apps, job, applicant)
          IN  /\ apps' = out.apps
              /\ aresp' = [n |-> aresp.n + 1,
                           req |-> JobReq("withdraw", job, applicant,
                                          ApplyRead(TRUE, findApplication(apps, job, applicant))),
                           res |-> out.res]
    /\ UNCHANGED <<now, ticks, tokVars, rlVars, authVars, courseVars, mwVars, applying, resetVars, proc>>

NextApply == ApplyLoad \/ ApplyFinish \/ Withdraw
SpecApply == Init /\ [][NextApply]_vars

-----------------------------------------------------------------------------
\* Concurrent reset-password requests for one account. A request is in
\* flight between the answer of User.findOne and its save.

\* POST /auth/register, once
ResetRegister ==
    /\ users = <<>>
    /\ LET body == AccountBody([email |-> "ann@x.io", role |-> "student"])
           out == register(users, nextId, body, "s1", "sent", now)
       IN  /\ users' = out.users
           /\ nextId' = nextId + 1
           /\ tokLog' = tokLog \cup out.issued
           /\ Respond("register", body, out.res)
    /\ UNCHANGED <<now, ticks, tokRes, suStored, suRes, rlVars, regLog, verifiedOk, courseVars, mwVars, jobVars, resetVars, proc>>

\* POST /auth/request-password-reset: generateRandomToken draws a secret
\* that was not drawn before.
ResetRequest ==
    /\ resp.n + Len(resetInflight) < MaxResetRequests
    /\ \E email \in Emails, secret \in AuthSecrets \ resetWins.issued :
          LET body == [Req EXCEPT !.email = email]
              out == requestPasswordReset(users, body, secret, "sent", now)
          IN  /\ users' = out.users
              /\ Respond("requestPasswordReset", body, out.res)
              /\ resetWins' = IF out.res.statusCode = 200
                              THEN [resetWins EXCEPT !.issued = @ \cup {secret}]
                              ELSE resetWins
    /\ UNCHANGED <<now, ticks, tokVars, rlVars, nextId, regLog, verifiedOk, courseVars, mwVars, jobVars, resetInflight, proc>>

\* POST /auth/reset-password up to the answer of User.findOne
ResetLoad ==
    /\ resp.n + Len(resetInflight) < MaxResetRequests
    /\ \E email \in Emails, token \in AuthSecrets, newPassword \in Passwords :
          LET body == [Req EXCEPT !.email = email, !.token = token, !.newPassword = newPassword]
          IN  resetInflight' = Append(resetInflight, [body |-> body, read |-> ResetRead(users, email)])
    /\ UNCHANGED <<now, ticks, tokVars, rlVars, authVars, courseVars, mwVars, jobVars, resetWins, proc>>

\* POST /auth/reset-password from there on
ResetFinish ==
    /\ \E i \in 1..Len(resetInflight) :
          LET r == resetInflight[i]
              out == resetPasswordFrom(users, r.body, r.read, now)
          IN  /\ users' = out.users
              /\ Respond("resetPassword", r.body, out.res)
              /\ resetWins' = IF out.res.statusCode = 200
                              THEN [resetWins EXCEPT !.won = Append(@, r.body.token)]
                              ELSE resetWins
              /\ resetInflight' = RemoveAt(resetInflight, i)
    /\ UNCHANGED <<now, ticks, tokVars, rlVars, nextId, regLog, verifiedOk, courseVars, mwVars, jobVars, proc>>

NextReset == ResetRegister \/ ResetRequest \/ ResetLoad \/ ResetFinish
SpecReset == Init /\ [][NextReset]_vars

-----------------------------------------------------------------------------
\* The process from start-up to its exit: requests, signals, the server's
\* 'close' event, the disconnect and the force-shutdown timer.

RequestArrives ==
    /\ proc.exit = Running /\ proc.listening /\ proc.served < MaxServed
    /\ proc' = [proc EXCEPT !.conns = @ + 1, !.served = @ + 1]
    /\ UNCHANGED <<now, ticks, tokVars, rlVars, authVars, courseVars, mwVars, jobVars, resetVars>>

RequestCompletes ==
    /\ proc.exit = Running /\ proc.conns > 0
    /\ proc' = [proc EXCEPT !.conns = @ - 1]
    /\ UNCHANGED <<now, ticks, tokVars, rlVars, authVars, courseVars, mwVars, jobVars, resetVars>>

\* SIGTERM or SIGINT is delivered
Signal ==
    /\ proc.exit = Running /\ proc.signals < MaxSignals
    /\ proc' = gracefulShutdown(proc)
    /\ UNCHANGED <<now, ticks, tokVars, rlVars, authVars, courseVars, mwVars, jobVars, resetVars>>

\* The server emits 'close'
ServerClosed ==
    /\ proc.exit = Running /\ ~proc.listening /\ proc.conns = 0 /\ proc.closeCbs # <<>>
    /\ proc' = emitClose(proc)
    /\ UNCHANGED <<now, ticks, tokVars, rlVars, authVars, courseVars, mwVars, jobVars, resetVars>>

\* database.disconnect() settles
DisconnectSettles ==
    /\ proc.exit = Running /\ proc.db = "disconnecting"
    /\ \E resolved \in BOOLEAN : proc' = afterDisconnect(proc, resolved)
    /\ UNCHANGED <<now, ticks, tokVars, rlVars, authVars, courseVars, mwVars, jobVars, resetVars>>

\* A force-shutdown timer fires
ForceShutdown ==
    /\ proc.exit = Running /\ proc.timers > 0
    /\ proc' = forceShutdown(proc)
    /\ UNCHANGED <<now, ticks, tokVars, rlVars, authVars, courseVars, mwVars, jobVars, resetVars>>

NextShutdown ==
    \/ RequestArrives \/ RequestCompletes \/ Signal \/ ServerClosed \/ DisconnectSettles
    \/ ForceShutdown
SpecShutdown == Init /\ [][NextShutdown]_vars

-----------------------------------------------------------------------------
\* Claims about the token utility

\* C2: a session token issued by generateToken at time t with lifetime L is
\* accepted by verifyToken at every time before t + L and fails verification
\* as expired at every time after t + L.
C2_AcceptedBeforeExpiredAfter ==
    \A e \in tokLog : e.kind = "session" =>
        /\ now < e.at + SessionLifetimeMs => verifyToken(e.token, now).ok
        /\ now > e.at + SessionLifetimeMs =>
              /\ ~verifyToken(e.token, now).ok
              /\ verifyToken(e.token, now).error = "Token has expired"

\* C3: for every account id and every role, verifyToken(generateToken(id, role))
\* before expiry returns a payload whose id and role equal the inputs; a token
\* that generateToken/generateRefreshToken did not produce never verifies.
C3_RoundTripAndUnforgeable ==
    /\ \A e \in tokLog : (e.kind = "session" /\ now < e.at + SessionLifetimeMs) =>
          LET r == verifyToken(e.token, now)
          IN  r.ok /\ r.payload.id = e.id /\ r.payload.role = e.role
    /\ \A tk \in Presentable : verifyToken(tk, now).ok => tk \in IssuedTokens
    /\ tokRes.res.ok => tokRes.token \in IssuedTokens

\* C3 witness: a session token for role designer was verified, later than it
\* was issued, and the payload came back.
C3_Witness ==
    \E e \in tokLog :
        /\ e.kind = "session" /\ e.role = "designer" /\ e.id = 2
        /\ tokRes.token = e.token /\ tokRes.at > e.at /\ tokRes.at < e.at + SessionLifetimeMs
        /\ tokRes.res.ok /\ tokRes.res.payload.role = "designer" /\ tokRes.res.payload.id = 2

\* C4: against the hash stored for secret s0, verifyEmailToken and the isValid
\* of verifyPasswordResetToken are true for s0 and false for every other
\* secret, whatever expires is; isExpired depends on expires and the clock
\* only, not on the secret.
ExpiresSamples == {suStored.expires, now - 1, now, now + 1}
C4_ValidityAndExpiryOrthogonal ==
    suStored.hashedToken # NoHash =>
        /\ \A s \in Secrets : verifyEmailToken(s, suStored.hashedToken) = (s = suStored.token)
        /\ \A s \in Secrets, x \in ExpiresSamples :
              verifyPasswordResetToken(s, suStored.hashedToken, x, now).isValid = (s = suStored.token)
        /\ \A s1, s2 \in Secrets, x \in ExpiresSamples :
              verifyPasswordResetToken(s1, suStored.hashedToken, x, now).isExpired
                = verifyPasswordResetToken(s2, suStored.hashedToken, x, now).isExpired
        /\ \A s \in Secrets :
              /\ verifyPasswordResetToken(s, suStored.hashedToken, now - 1, now).isExpired
              /\ ~verifyPasswordResetToken(s, suStored.hashedToken, now, now).isExpired

\* C4 witness: the right secret was presented after the stored expiry: the
\* hash check passes and the expiry check reports expired.
C4_Witness ==
    /\ suRes.token = suStored.token /\ suRes.at > suStored.expires /\ suStored.expires # NoDate
    /\ suRes.email /\ suRes.reset.isValid /\ suRes.reset.isExpired

-----------------------------------------------------------------------------
\* Claims about the auth rate limiter

\* The accepted attempts of ip in the trailing window (t - windowMs, t].
AcceptedInWindow(ip, t) ==
    {i \in 1..Len(rlAccepted[ip]) : rlAccepted[ip][i] > t - windowMs /\ rlAccepted[ip][i] <= t}

RlStepOf(ip) == rlOut'.n = rlOut.n + 1 /\ rlOut'.ip = ip

\* C7: for one limiter and any interleaving of requests from any addresses,
\* the accepted attempts of one address within any trailing window of windowMs
\* never exceed maxAttempts; a rejection is an authentication error (401); a
\* request from one address leaves every other address's count alone.
C7_WindowNeverExceedsMax ==
    /\ [](\A ip \in Ips :
            /\ Cardinality(AcceptedInWindow(ip, now)) <= maxAttempts
            /\ \A i \in 1..Len(rlAccepted[ip]) :
                  Cardinality(AcceptedInWindow(ip, rlAccepted[ip][i])) <= maxAttempts)
    /\ [](rlOut.n > 0 /\ ~rlOut.accepted =>
            rlOut.statusCode = 401 /\ rlOut.message = TooManyAttempts)
    /\ [][\A ip \in Ips : RlStepOf(ip) =>
            /\ Cardinality(AcceptedInWindow(ip, now)) >= maxAttempts => ~rlOut'.accepted
            /\ \A other \in Ips \ {ip} :
                  /\ rlAccepted'[other] = rlAccepted[other]
                  /\ (other \in DOMAIN attempts =>
                        other \in DOMAIN attempts' /\ attempts'[other] = attempts[other])
                  /\ (other \notin DOMAIN attempts => other \notin DOMAIN attempts')]_vars

\* C7 witness: an address is rejected with maxAttempts accepted attempts in
\* its window while the other address, in the same window, was let through.
C7_Witness ==
    /\ rlOut.n > 0 /\ ~rlOut.accepted /\ rlOut.at = now
    /\ Cardinality(AcceptedInWindow(rlOut.ip, now)) = maxAttempts
    /\ \E other \in Ips \ {rlOut.ip} :
          Cardinality(AcceptedInWindow(other, now)) \in 1..(maxAttempts - 1)

\* C8: once an address has been rejected, an attempt from it succeeds as soon
\* as windowMs have elapsed since its earliest counted attempt; a rejected
\* attempt is not counted and does not move that moment.
C8_UnlockAfterWindowFromEarliest ==
    [][\A ip \in Ips : (RlStepOf(ip) /\ rlLocked[ip] # NoDate) =>
          /\ now >= rlLocked[ip] + windowMs => rlOut'.accepted
          /\ now < rlLocked[ip] + windowMs => ~rlOut'.accepted
          /\ ~rlOut'.accepted =>
                /\ rlLocked'[ip] = rlLocked[ip]
                /\ attempts'[ip] = attempts[ip]
                /\ rlAccepted'[ip] = rlAccepted[ip]]_vars

\* C8 witness: an address that was rejected, and rejected again during the
\* lockout, is let through exactly windowMs after its earliest counted attempt.
C8_Witness ==
    /\ rlOut.accepted /\ rlOut.lockedSince # NoDate
    /\ rlOut.at = rlOut.lockedSince + windowMs
    /\ rlOut.n >= maxAttempts + 3

-----------------------------------------------------------------------------
\* Claims about the auth routes and protect

\* The step is the handling of one request of kind op; resp' is its response.
AuthStep(op) == resp'.n = resp.n + 1 /\ resp'.op = op

Rejected401(res, message) ==
    /\ res.statusCode = 401 /\ res.error = "AuthenticationError" /\ res.message = message
    /\ res.token = NoToken /\ res.refreshToken = NoToken /\ res.user = 0

\* C1: after an account's credential is changed (password reset), protect
\* rejects with an authentication error every session token issued to the
\* account before the change, although the token has not expired; a token
\* issued after the change is still accepted.
C1_StaleTokenRejected ==
    [][AuthStep("protect") =>
         \A e \in tokLog :
            (/\ e.kind = "session" /\ resp'.req.cookie = e.token
             /\ e.id \in DOMAIN users /\ users[e.id].isActive
             /\ users[e.id].passwordChangedAt # NoDate
             /\ now < e.at + SessionLifetimeMs /\ verifyToken(e.token, now).ok) =>
               /\ e.at < users[e.id].passwordChangedAt =>
                     /\ resp'.res.statusCode = 401
                     /\ resp'.res.error = "AuthenticationError"
                     /\ resp'.res.user = 0
               /\ e.at > users[e.id].passwordChangedAt =>
                     /\ resp'.res.statusCode = 200
                     /\ resp'.res.user = e.id]_vars

\* C5: after register returned a verification secret, a verify-email request
\* with the account's email and that secret, made before the expiry and before
\* any verification succeeded, succeeds and marks the email verified; every
\* verify-email request with the same secret after that fails with "No
\* verification token found", and the account stays verified.
C5_VerifyOnceThenNoToken ==
    /\ [](\A id \in verifiedOk : id \in DOMAIN users => users[id].isEmailVerified)
    /\ [][AuthStep("verifyEmail") =>
            \A r \in regLog :
               (resp'.req.email = r.email /\ resp'.req.token = r.secret /\ r.id \in DOMAIN users) =>
                  /\ (r.id \notin verifiedOk /\ now <= r.expires) =>
                        /\ resp'.res.statusCode = 200
                        /\ users'[r.id].isEmailVerified
                        /\ r.id \in verifiedOk'
                  /\ r.id \in verifiedOk =>
                        /\ Rejected401(resp'.res, NoVerificationToken)
                        /\ users'[r.id].isEmailVerified]_vars

\* C5 witness: the secret register returned has verified the account, and a
\* second request with the same email and secret was answered "No
\* verification token found".
C5_Witness ==
    /\ resp.op = "verifyEmail" /\ Rejected401(resp.res, NoVerificationToken)
    /\ \E r \in regLog :
          /\ r.email = resp.req.email /\ r.secret = resp.req.token
          /\ r.id \in verifiedOk /\ users[r.id].isEmailVerified

\* What the presence / expiry / hash-match order prescribes for a response.
ReasonInOrder(res, absent, expired, mismatch, noToken, expiredToken, invalidToken) ==
    /\ absent => Rejected401(res, noToken)
    /\ (~absent /\ expired) => Rejected401(res, expiredToken)
    /\ (~absent /\ ~expired /\ mismatch) => Rejected401(res, invalidToken)
    /\ (~absent /\ ~expired /\ ~mismatch) => res.statusCode = 200
    /\ expired => res.statusCode # 200

\* C6: verify-email and reset-password reject with three distinct reasons (no
\* token stored, token expired, secret does not match the stored hash); when
\* several hold, the reason reported is the first in the order presence,
\* expiry, hash match, so a correct secret presented after the stored expiry
\* is rejected as expired and never succeeds.
C6_ThreeReasonsInOrder ==
    /\ [](/\ Cardinality({NoVerificationToken, VerificationExpired, InvalidVerificationToken}) = 3
          /\ Cardinality({NoResetToken, ResetExpired, InvalidResetToken}) = 3)
    /\ [][\A id \in DOMAIN users :
            /\ (AuthStep("verifyEmail") /\ resp'.req.token # Missing
                  /\ resp'.req.email = users[id].email) =>
                  ReasonInOrder(resp'.res,
                                users[id].emailVerificationToken = NoHash,
                                users[id].emailVerificationExpires # NoDate
                                   /\ users[id].emailVerificationExpires < now,
                                users[id].emailVerificationToken # hashToken(resp'.req.token),
                                NoVerificationToken, VerificationExpired, InvalidVerificationToken)
            /\ (AuthStep("resetPassword") /\ resp'.req.token # Missing
                  /\ resp'.req.newPassword # Missing /\ resp'.req.email = users[id].email) =>
                  ReasonInOrder(resp'.res,
                                users[id].passwordResetToken = NoHash,
                                users[id].passwordResetExpires # NoDate
                                   /\ users[id].passwordResetExpires < now,
                                users[id].passwordResetToken # hashToken(resp'.req.token),
                                NoResetToken, ResetExpired, InvalidResetToken)]_vars

\* C6 witness: the correct reset secret, presented after the stored expiry,
\* was rejected as expired.
C6_Witness ==
    /\ resp.op = "resetPassword" /\ Rejected401(resp.res, ResetExpired)
    /\ \E id \in DOMAIN users :
          /\ users[id].email = resp.req.email
          /\ users[id].passwordResetToken = hashToken(resp.req.token)
          /\ users[id].passwordResetExpires < now

\* C9: for the same submitted password, a login with an existing identity and
\* a wrong credential and a login with a non-existent identity produce the
\* same error kind, status and message; neither sets a cookie nor changes any
\* stored account.
C9_LoginFailuresIndistinguishable ==
    /\ [](\A id \in DOMAIN users, p \in Passwords :
            ~correctPassword(p, users[id].password) =>
               LET known == login(users, [Req EXCEPT !.email = users[id].email, !.password = p], now)
                   unknown == login(users, [Req EXCEPT !.email = Nobody, !.password = p], now)
               IN  /\ known.res = unknown.res
                   /\ known.res.statusCode = 401 /\ known.res.error = "AuthenticationError"
                   /\ known.res.token = NoToken /\ known.res.refreshToken = NoToken
                   /\ known.users = users /\ unknown.users = users
                   /\ known.issued = {} /\ unknown.issued = {})
    /\ [][(AuthStep("login") /\ resp'.req.email # Missing
             /\ \A id \in FindByEmail(users, resp'.req.email) :
                   ~correctPassword(resp'.req.password, users[id].password)) =>
            /\ resp'.res = Thrown(AuthenticationError("Incorrect email or password"))
            /\ users' = users
            /\ tokLog' = tokLog]_vars

\* C9 witness: a login for a registered identity with a wrong password was
\* rejected, in a state where a login for an unknown identity is rejected too.
C9_Witness ==
    /\ resp.op = "login" /\ resp.res.statusCode = 401
    /\ \E id \in DOMAIN users :
          /\ users[id].email = resp.req.email
          /\ ~correctPassword(resp.req.password, users[id].password)
          /\ resp.res = login(users, [Req EXCEPT !.email = Nobody, !.password = resp.req.password], now).res

-----------------------------------------------------------------------------
\* Claims about course enrollment

\* The step answers the in-flight request r.
CourseAnswers(r) == cresp'.n = cresp.n + 1 /\ cresp'.req = r

\* C10: an enroll request by an account that is already on the course's
\* roster is rejected with a conflict error (ConflictError, 409) and leaves
\* the roster unchanged.
C10_EnrollTwiceIsConflict ==
    [][\A i \in 1..Len(inflight) :
          (/\ CourseAnswers(inflight[i]) /\ inflight[i].op = "enroll"
           /\ inflight[i].read.found
           /\ OnRoster(inflight[i].read.doc, inflight[i].user.id)) =>
             /\ cresp'.res.statusCode = 409
             /\ cresp'.res.error = "ConflictError"
             /\ courses' = courses]_vars

Without(s, k) == [j \in 1..(Len(s) - 1) |-> IF j < k THEN s[j] ELSE s[j + 1]]

\* C12: an unenroll request by an account that is not on the course's roster
\* is rejected and leaves the roster unchanged; an unenroll by an account on
\* the roster removes exactly one entry, that account's, and no other entry of
\* any course.
C12_UnenrollRemovesOnlyOwnEntry ==
    [][\A i \in 1..Len(inflight) :
          (/\ CourseAnswers(inflight[i]) /\ inflight[i].op = "unenroll"
           /\ inflight[i].read.found) =>
             LET r == inflight[i]
                 old == courses[r.courseId].enrolledStudents
                 new == courses'[r.courseId].enrolledStudents
             IN  /\ ~OnRoster(r.read.doc, r.user.id) =>
                       /\ cresp'.res.statusCode = 400
                       /\ cresp'.res.message = "You are not enrolled in this course"
                       /\ courses' = courses
                 /\ (OnRoster(r.read.doc, r.user.id) /\ r.read.doc = courses[r.courseId]) =>
                       /\ cresp'.res.statusCode = 200
                       /\ \E k \in 1..Len(old) : old[k] = r.user.id /\ new = Without(old, k)
                 /\ cresp'.res.statusCode # 200 => courses' = courses
                 /\ \A c \in DOMAIN courses \ {r.courseId} : courses'[c] = courses[c]
                 /\ \A u \in {c.id : c \in Callers} \ {r.user.id} :
                       Cardinality({k \in 1..Len(new) : new[k] = u})
                         = Cardinality({k \in 1..Len(old) : old[k] = u})]_vars

\* C12 witness: with two accounts on the roster, the first one unenrolled and
\* the roster now holds the other account only.
C12_Witness ==
    /\ cresp.req.op = "unenroll" /\ cresp.res.statusCode = 200
    /\ Len(cresp.req.read.doc.enrolledStudents) = 2
    /\ cresp.req.read.doc.enrolledStudents[1] = cresp.req.user.id
    /\ cresp.req.read.doc.enrolledStudents[2] # cresp.req.user.id
    /\ courses[cresp.req.courseId].enrolledStudents = <<cresp.req.read.doc.enrolledStudents[2]>>

\* C26: under any interleaving of enroll requests by distinct accounts (each
\* reads the course, checks the roster, then saves), the roster of a course
\* with configured ceiling M never holds more than M accounts.
C26_RosterNeverExceedsCeiling ==
    \A c \in DOMAIN courses :
        courses[c].maxStudents # NoMax =>
            Len(courses[c].enrolledStudents) <= courses[c].maxStudents

-----------------------------------------------------------------------------
\* Claims about the access middleware

\* The account a session token was issued to, when it is stored and active
\* and has not reset its password.
Usable(token) ==
    \E e \in tokLog :
        /\ e.kind = "session" /\ e.token = token /\ e.id \in DOMAIN users
        /\ users[e.id].isActive /\ users[e.id].passwordChangedAt = NoDate
HolderOf(token) == (CHOOSE e \in tokLog : e.kind = "session" /\ e.token = token).id

\* C13: protect takes the token from the `token` cookie when there is one and
\* otherwise from an `Authorization: Bearer <token>` header; with a cookie the
\* header is never consulted; when neither yields a token the request is
\* rejected with AuthenticationError "No token provided" and no account is
\* looked up.
C13_CookieThenBearerHeader ==
    mw.run.op = "protect" =>
        LET r == mw.run
            used == IF r.cookie # NoToken THEN r.cookie
                    ELSE IF r.header.scheme = "Bearer " THEN r.header.token
                    ELSE NoToken
        IN  /\ r.cookie # NoToken => ~r.headerRead
            /\ r.cookie = NoToken => r.headerRead
            /\ Usable(used) => r.res.statusCode = 200 /\ r.user.id = HolderOf(used)
            /\ (used # NoToken /\ used \notin IssuedTokens) =>
                  Rejected401(r.res, "Invalid token") /\ ~r.lookup
            /\ used = NoToken => Rejected401(r.res, "No token provided") /\ ~r.lookup
            /\ r.res.statusCode = 200 => r.lookup

\* C13 witness: a cookie signed with a foreign key came with a Bearer header
\* carrying a usable session token; the cookie was taken and rejected.
C13_Witness ==
    /\ mw.run.op = "protect"
    /\ mw.run.cookie # NoToken /\ mw.run.cookie \notin IssuedTokens
    /\ mw.run.header.scheme = "Bearer " /\ Usable(mw.run.header.token)
    /\ Rejected401(mw.run.res, "Invalid token") /\ ~mw.run.headerRead

\* The token a request through protect is judged by.
UsedToken(r) ==
    IF r.cookie # NoToken THEN r.cookie
    ELSE IF r.header.scheme = "Bearer " THEN r.header.token
    ELSE NoToken

\* The requests that go through protect first.
ThroughProtect == {"protect", "route", "updateUser", "adminDeleteUser", "deleteUser"}

\* The accounts that were deleted: assigned an _id, no longer stored.
Deleted == {id \in 1..(nextId - 1) : id \notin DOMAIN users}

\* C14: after an account is deleted, by itself or by an admin/manager, every
\* session token issued to it, still correctly signed and unexpired, is
\* rejected by protect with AuthenticationError "User no longer exists", and
\* no account is bound to the request.
C14_DeletedAccountTokensRejected ==
    /\ mw.run.op \in {"deleteUser", "adminDeleteUser"} /\ mw.run.res.statusCode = 200 =>
          mw.run.target \in Deleted
    /\ \A e \in tokLog : (e.kind = "session" /\ e.id \in Deleted) =>
          /\ verifyToken(e.token, now).ok
          /\ Rejected401(protect(users, e.token, NoHeader, now), "User no longer exists")
          /\ Rejected401(protect(users, NoToken, Bearer(e.token), now), "User no longer exists")
          /\ (mw.run.op \in ThroughProtect /\ UsedToken(mw.run) = e.token
                /\ ~(mw.run.op \in {"deleteUser", "adminDeleteUser"}
                       /\ mw.run.res.statusCode = 200)) =>
                /\ Rejected401(mw.run.res, "User no longer exists")
                /\ mw.run.user = NoUser /\ ~mw.run.handlerRan

\* C14 witness: the student, the only account ever registered, deleted itself,
\* and its session token was then presented to protect and rejected.
C14_Witness ==
    /\ mw.run.op = "protect" /\ Rejected401(mw.run.res, "User no longer exists")
    /\ nextId = 2 /\ Deleted = {1}
    /\ \E e \in tokLog : e.kind = "session" /\ e.id = 1 /\ e.role = "student"
                           /\ UsedToken(mw.run) = e.token

\* C15: while an account is deactivated no request authenticates as it: a
\* login with its correct credential is rejected and issues no cookie, and
\* protect rejects every token issued to it before the deactivation.
C15_DeactivatedNeverAuthenticates ==
    \A a \in AccessAccounts, id \in DOMAIN users :
        (users[id].email = a.email /\ ~users[id].isActive) =>
            LET in == login(users, AccountBody(a), now)
            IN  /\ correctPassword(AccountBody(a).password, users[id].password)
                /\ Rejected401(in.res, "User account is deactivated")
                /\ in.issued = {} /\ in.users = users
                /\ (mw.run.op = "login" /\ mw.run.target = id) =>
                      Rejected401(mw.run.res, "User account is deactivated")
                /\ \A e \in tokLog : e.id = id =>
                      /\ Rejected401(protect(users, e.token, NoHeader, now),
                                     "User account is deactivated")
                      /\ Rejected401(protect(users, NoToken, Bearer(e.token), now),
                                     "User account is deactivated")
                      /\ optionalAuth(users, Bearer(e.token), now, FALSE).user = 0
                      /\ (mw.run.op \in ThroughProtect \cup {"optionalAuth"}
                            /\ UsedToken(mw.run) = e.token
                            /\ ~(mw.run.op = "updateUser" /\ mw.run.res.statusCode = 200)) =>
                            /\ mw.run.user = NoUser /\ ~mw.run.handlerRan
                            /\ mw.run.op # "optionalAuth" =>
                                  Rejected401(mw.run.res, "User account is deactivated")

\* C15 witness: the student was deactivated by the administrator and then
\* logged in with its password; the login was rejected and set no cookie.
C15_Witness ==
    /\ mw.run.op = "login" /\ mw.run.target \in DOMAIN users
    /\ users[mw.run.target].role = "student" /\ ~users[mw.run.target].isActive
    /\ Rejected401(mw.run.res, "User account is deactivated")
    /\ \E e \in tokLog : e.id = mw.run.target

\* C16: optionalAuth never rejects: whatever the header, the token (missing,
\* malformed, wrongly signed), the account (missing, deactivated) or the
\* outcome of the account lookup, it passes the request on exactly once
\* without an error, and it binds an account only when the token verifies and
\* the account exists and is active.
C16_OptionalAuthNeverRejects ==
    /\ \A header \in AccessHeaders, lookupFails \in BOOLEAN :
          LET o == optionalAuth(users, header, now, lookupFails)
          IN  /\ o.nextCalls = 1 /\ o.error = ""
              /\ o.user # 0 =>
                    /\ ~lookupFails /\ header.scheme = "Bearer "
                    /\ verifyToken(header.token, now).ok
                    /\ verifyToken(header.token, now).payload.id = o.user
                    /\ o.user \in DOMAIN users /\ users[o.user].isActive
    /\ mw.run.op = "optionalAuth" =>
          /\ mw.run.nextCalls = 1 /\ mw.run.res = Passed
          /\ mw.run.user # NoUser =>
                /\ mw.run.header.scheme = "Bearer "
                /\ verifyToken(mw.run.header.token, now).ok
                /\ mw.run.user.id \in DOMAIN users /\ users[mw.run.user.id].isActive

\* C16 witness: optionalAuth was given a Bearer token signed with a foreign
\* key while the account the payload names is stored and active; it passed
\* the request on, once, with no account bound.
C16_Witness ==
    /\ mw.run.op = "optionalAuth" /\ mw.run.header.scheme = "Bearer "
    /\ mw.run.header.token # NoToken /\ mw.run.header.token \notin IssuedTokens
    /\ mw.run.header.token.payload.id \in DOMAIN users
    /\ users[mw.run.header.token.payload.id].isActive
    /\ mw.run.nextCalls = 1 /\ mw.run.res = Passed /\ mw.run.user = NoUser

\* C17: isOwner lets a request through only if the caller's role is admin or
\* manager, or the targeted resource's owner-like reference (owner, user or
\* instructor, whichever is present) equals the caller's id; every other
\* bound caller of an existing resource is rejected with AuthorizationError.
C17_OwnerOrStaffOnly ==
    (mw.run.op = "isOwner" /\ mw.run.user # NoUser /\ mw.run.resource.found) =>
        LET allowed == \/ mw.run.user.role \in {"admin", "manager"}
                       \/ /\ ownerField(mw.run.resource) # NoRef
                          /\ ownerField(mw.run.resource) = mw.run.user.id
        IN  /\ mw.run.res = Passed => allowed
            /\ ~allowed => /\ mw.run.res.statusCode = 403
                           /\ mw.run.res.error = "AuthorizationError"
                           /\ mw.run.nextCalls = 0

\* The requests to routes declared as protect, restrictTo(roles), handler.
RestrictedOps == {"route", "updateUser", "adminDeleteUser"}

\* C18: on a route declared as protect followed by restrictTo(R) the handler
\* runs only for a request with a bound account whose role is in R; a bound
\* account whose role is not in R is rejected with AuthorizationError (403),
\* a request with no bound account with AuthenticationError (401), and in
\* both cases the handler does not run.
C18_HandlerOnlyForAllowedRoles ==
    /\ [](mw.run.op \in RestrictedOps =>
            /\ mw.run.handlerRan =>
                  /\ mw.run.user # NoUser /\ mw.run.user.role \in mw.run.roles
                  /\ UsedToken(mw.run) \in IssuedTokens
                  /\ UsedToken(mw.run).payload.id = mw.run.user.id
            /\ (mw.run.user # NoUser /\ mw.run.user.role \notin mw.run.roles) =>
                  /\ mw.run.res.statusCode = 403 /\ mw.run.res.error = "AuthorizationError"
                  /\ ~mw.run.handlerRan
            /\ mw.run.user = NoUser =>
                  /\ mw.run.res.statusCode = 401 /\ mw.run.res.error = "AuthenticationError"
                  /\ ~mw.run.handlerRan)
    /\ [][(mw'.n = mw.n + 1 /\ mw'.run.op \in RestrictedOps /\ ~mw'.run.handlerRan) =>
            users' = users]_vars

\* C18 witness: the student's session token was presented to an admin/manager
\* route that changes accounts; the answer was 403 and the handler did not run.
C18_Witness ==
    /\ mw.run.op = "updateUser" /\ mw.run.user # NoUser /\ mw.run.user.role = "student"
    /\ mw.run.roles = {"admin", "manager"}
    /\ mw.run.res.statusCode = 403 /\ ~mw.run.handlerRan
    /\ mw.run.target \in DOMAIN users /\ users[mw.run.target].isActive

-----------------------------------------------------------------------------
\* Claims about error handling

\* C19: every failure raised while a request is handled, in every controller,
\* reaches the global error handler, which produces the response; no handler
\* catches a failure and answers it itself.
C19_FailuresReachGlobalHandler ==
    eh.n > 0 => /\ eh.res.by # "handler"
                /\ eh.res.details = ""

\* The names the production branch converts.
ConvertedNames == {"CastError", "ValidationError", "JsonWebTokenError", "TokenExpiredError",
                   "MulterError"}

\* An error the production branch neither trusts nor converts.
Unclassified(err) ==
    /\ ~err.isOperational
    /\ err.code # DuplicateKey
    /\ ~(err.nameOwn /\ err.name \in ConvertedNames)

\* C20: in production the response to an unclassified (non-operational) error
\* is status 500 with one fixed generic message, the same for any two such
\* errors whatever their message or stack; in development the response
\* carries the error's own message and stack.
C20_GenericInProductionDetailInDevelopment ==
    /\ \A e1, e2 \in RaisedErrors : (Unclassified(e1) /\ Unclassified(e2)) =>
          /\ globalErrorHandler(e1, "production") = globalErrorHandler(e2, "production")
          /\ globalErrorHandler(e1, "production")
                = Response("globalErrorHandler", 500, "error", GenericMessage, "", "")
    /\ \A e \in RaisedErrors :
          LET d == globalErrorHandler(e, "development")
          IN  d.sent /\ d.message = e.message /\ d.stack = e.stack
              /\ d.statusCode = (IF e.statusCode = 0 THEN 500 ELSE e.statusCode)
    /\ (eh.handler \in WrappedHandlers /\ eh.env = "production" /\ Unclassified(eh.err)) =>
          /\ eh.res.sent /\ eh.res.statusCode = 500 /\ eh.res.message = GenericMessage
          /\ eh.res.stack = "" /\ eh.res.details = ""
          /\ eh.res.message # eh.err.message
    /\ (eh.handler \in WrappedHandlers /\ eh.env = "development") =>
          /\ eh.res.sent /\ eh.res.message = eh.err.message /\ eh.res.stack = eh.err.stack

\* C20 witness: in production a wrapped handler failed with an error that
\* carries its own status 400, message and stack; the response is the fixed
\* 500.
C20_Witness ==
    /\ eh.handler \in WrappedHandlers /\ eh.env = "production"
    /\ Unclassified(eh.err) /\ eh.err.statusCode = 400 /\ eh.err.message = "Unexpected token"
    /\ eh.res = Response("globalErrorHandler", 500, "error", GenericMessage, "", "")

\* C29: for every error that reaches the global error handler exactly one
\* response is sent, in every environment mode: development, production, and
\* any other value of NODE_ENV.
C29_GlobalHandlerAlwaysResponds ==
    (eh.n > 0 /\ eh.handler \in WrappedHandlers) => eh.res.sent

-----------------------------------------------------------------------------
\* Claims about duplicates, logout, single-use tokens and register's mails

\* C21: a duplicate unique key is reported as a conflict with status 409: a
\* register request with an identity that is already registered is rejected
\* with ConflictError (409).
C21_DuplicateIsConflict ==
    [][(AuthStep("register") /\ FindByEmail(users, resp'.req.email) # {}) =>
          /\ resp'.res.statusCode = 409
          /\ resp'.res.error = "ConflictError"]_vars

\* C22: logout clears the `token` and `refreshToken` cookies and changes no
\* server-side state: a session token issued before logout and presented
\* again afterwards (in the cookie or in a Bearer header) is still accepted by
\* protect.
C22_LogoutIsStateless ==
    /\ [](mw.run.op = "logout" =>
            /\ mw.run.res.statusCode = 200
            /\ mw.run.res.cleared = {"token", "refreshToken"}
            /\ mw.run.res.token = NoToken /\ mw.run.res.refreshToken = NoToken)
    /\ [](\A tk \in mw.loggedOut : tk \in {e.token : e \in {x \in tokLog : x.kind = "session"}})
    /\ [](mw.run.op = "protect" =>
            LET used == IF mw.run.cookie # NoToken THEN mw.run.cookie ELSE mw.run.header.token
            IN  (used \in mw.loggedOut /\ Usable(used) /\ verifyToken(used, now).ok
                   /\ (mw.run.cookie # NoToken \/ mw.run.header.scheme = "Bearer ")) =>
                    /\ mw.run.res.statusCode = 200
                    /\ mw.run.user.id = HolderOf(used))
    /\ [][(mw'.n = mw.n + 1 /\ mw'.run.op = "logout") =>
            /\ users' = users /\ tokLog' = tokLog /\ nextId' = nextId
            /\ \A tk \in SessionTokens, h \in AccessHeaders :
                  protect(users', tk, h, now') = protect(users, tk, h, now)]_vars

\* C22 witness: after a logout that cleared the cookie holding a session
\* token, protect accepted that token from a Bearer header.
C22_Witness ==
    /\ mw.run.op = "protect" /\ mw.run.cookie = NoToken
    /\ mw.run.header.scheme = "Bearer " /\ mw.run.header.token \in mw.loggedOut
    /\ mw.run.res.statusCode = 200 /\ mw.run.user.id = HolderOf(mw.run.header.token)

\* C28: protect never authenticates a request whose presented token is a
\* refresh token (type marker 'refresh'): only tokens issued as session tokens
\* bind an account.
C28_RefreshTokenNeverAuthenticates ==
    [][(AuthStep("protect") /\ resp'.req.cookie.payload.type = "refresh") =>
          /\ resp'.res.statusCode # 200
          /\ resp'.res.user = 0]_vars

\* The fields of an account that belong to the email verification and to the
\* password reset, and the credential.
VerificationFields(u) == <<u.isEmailVerified, u.emailVerificationToken, u.emailVerificationExpires>>
ResetFields(u) == <<u.password, u.passwordChangedAt, u.passwordResetToken, u.passwordResetExpires>>

\* C25: a rejected verify-email or reset-password request leaves the accounts
\* unchanged (flag, credential, stored hashes and expiries), so the correct
\* secret still works afterwards; a successful request clears the hash and
\* the expiry of the token it used and leaves the other single-use token's
\* fields unchanged.
C25_RejectedLeavesTokensSuccessClearsOwn ==
    [][/\ ((AuthStep("verifyEmail") \/ AuthStep("resetPassword")) /\ resp'.res.statusCode # 200) =>
            /\ users' = users
            /\ \A s \in AuthSecrets :
                  LET body == [resp'.req EXCEPT !.token = s]
                  IN  IF resp'.op = "verifyEmail"
                      THEN verifyEmail(users', body, now') = verifyEmail(users, body, now)
                      ELSE resetPassword(users', body, now') = resetPassword(users, body, now)
       /\ (AuthStep("verifyEmail") /\ resp'.res.statusCode = 200) =>
            LET id == resp'.res.user
            IN  /\ users'[id].isEmailVerified
                /\ users'[id].emailVerificationToken = NoHash
                /\ users'[id].emailVerificationExpires = NoDate
                /\ ResetFields(users'[id]) = ResetFields(users[id])
                /\ \A o \in DOMAIN users \ {id} : users'[o] = users[o]
       /\ (AuthStep("resetPassword") /\ resp'.res.statusCode = 200) =>
            LET id == resp'.res.user
            IN  /\ correctPassword(resp'.req.newPassword, users'[id].password)
                /\ users'[id].passwordResetToken = NoHash
                /\ users'[id].passwordResetExpires = NoDate
                /\ VerificationFields(users'[id]) = VerificationFields(users[id])
                /\ \A o \in DOMAIN users \ {id} : users'[o] = users[o]]_vars

\* C25 witness: a reset-password request with a wrong secret was rejected
\* while the account holds an unverified email token and a reset token; the
\* correct reset secret still succeeds.
C25_Witness ==
    /\ resp.op = "resetPassword" /\ Rejected401(resp.res, InvalidResetToken)
    /\ \E id \in DOMAIN users, s \in AuthSecrets :
          /\ users[id].email = resp.req.email
          /\ users[id].emailVerificationToken # NoHash /\ ~users[id].isEmailVerified
          /\ s # resp.req.token
          /\ resetPassword(users, [resp.req EXCEPT !.token = s], now).res.statusCode = 200

\* A register body with all fields present.
RegisterBody(email) ==
    [Req EXCEPT !.firstName = "Ann", !.lastName = "Lee", !.email = email,
                !.password = "pw1", !.role = "student"]

\* C30: register is not rolled back when a notification fails: if the
\* verification or the welcome mail fails, the request ends in an error with
\* no cookies set, the account created earlier in the request stays stored
\* with its verification token hash, and a repeated register with the same
\* identity is rejected as a duplicate.
C30_RegisterNotRolledBack ==
    /\ [](\A email \in Emails, secret \in AuthSecrets, mail \in MailOutcomes \ {"sent"} :
            FindByEmail(users, email) = {} =>
               LET out == register(users, nextId, RegisterBody(email), secret, mail, now)
                   again == register(out.users, nextId + 1, RegisterBody(email), secret, "sent", now)
               IN  /\ out.res = Thrown(MailError)
                   /\ out.res.token = NoToken /\ out.res.refreshToken = NoToken
                   /\ out.issued = {}
                   /\ FindByEmail(out.users, email) = {nextId}
                   /\ out.users[nextId].emailVerificationToken = hashToken(secret)
                   /\ again.res = Thrown(ValidationError("Email already in use"))
                   /\ again.users = out.users /\ again.issued = {})
    /\ [][(AuthStep("register") /\ resp'.res = Thrown(MailError)) =>
            /\ tokLog' = tokLog
            /\ FindByEmail(users, resp'.req.email) = {}
            /\ \E id \in DOMAIN users' \ DOMAIN users :
                  /\ users'[id].email = resp'.req.email
                  /\ users'[id].emailVerificationToken # NoHash]_vars
    /\ [][(AuthStep("register") /\ FindByEmail(users, resp'.req.email) # {}) =>
            /\ resp'.res = Thrown(ValidationError("Email already in use"))
            /\ users' = users /\ tokLog' = tokLog]_vars

\* C30 witness: a register was rejected as a duplicate of an account that
\* was never issued a token: the account a register with a failed mail left
\* behind, with its verification token hash.
C30_Witness ==
    /\ resp.op = "register" /\ resp.res = Thrown(ValidationError("Email already in use"))
    /\ \E id \in DOMAIN users :
          /\ users[id].email = resp.req.email
          /\ users[id].emailVerificationToken # NoHash
          /\ \A e \in tokLog : e.id # id

-----------------------------------------------------------------------------
\* Claims about concurrent requests and about shutdown

\* How many documents of the collection are the application of this pair.
Count(as, job, applicant) ==
    Cardinality({i \in 1..Len(as) : as[i] = Application(job, applicant)})

\* The step answers the in-flight apply request r.
ApplyAnswers(r) == aresp'.n = aresp.n + 1 /\ aresp'.req = r

\* C24: under any interleaving of apply and withdraw requests, including two
\* concurrent apply requests by the same applicant for the same job, at most
\* one application exists per (job, applicant) pair, and an apply request
\* that saves while the pair's application exists is answered 400 and stores
\* nothing; a request answered 201 found no application of the pair and
\* leaves exactly one, so that every request of the pair still in flight is
\* refused for as long as that application is not withdrawn.
C24_OneApplicationPerPair ==
    /\ [](\A job \in JobIds, applicant \in Applicants : Count(apps, job, applicant) <= 1)
    /\ [][\A i \in 1..Len(applying) :
            ApplyAnswers(applying[i]) =>
               LET r == applying[i]
               IN  /\ Count(apps, r.job, r.applicant) = 1 =>
                        /\ aresp'.res.statusCode = 400
                        /\ apps' = apps
                   /\ aresp'.res.statusCode = 201 =>
                        /\ Count(apps, r.job, r.applicant) = 0
                        /\ Count(apps', r.job, r.applicant) = 1
                        /\ \A j \in 1..Len(applying') :
                              (applying'[j].job = r.job /\ applying'[j].applicant = r.applicant) =>
                                 /\ applying'[j].rivalSucceeded
                                 /\ applyForJob(apps', r.job, r.applicant,
                                                applying'[j].read).res.statusCode = 400]_vars

\* C24 as stated: of two apply requests of one applicant for one job that are
\* in flight together, at most one is answered 201, whatever withdraw
\* requests are served between their saves.
C24_AtMostOneConcurrentSuccess ==
    [][\A i \in 1..Len(applying) :
          (ApplyAnswers(applying[i]) /\ applying[i].rivalSucceeded) =>
             aresp'.res.statusCode # 201]_vars

\* C24 witness: of two apply requests of one applicant for one job that both
\* read "no application yet", the second to save was answered 400 and the
\* collection holds the pair once.
C24_Witness ==
    /\ aresp.req.op = "apply" /\ aresp.req.read.jobFound /\ ~aresp.req.read.existing
    /\ aresp.req.rivalSucceeded
    /\ aresp.res.statusCode = 400
    /\ Count(apps, aresp.req.job, aresp.req.applicant) = 1

\* C27: a password-reset secret is single-use under concurrency: for one
\* issued secret and any interleaving of reset-password requests presenting
\* it, at most one request succeeds in replacing the credential.
C27_ResetSecretSingleUse ==
    \A s \in resetWins.issued :
        Cardinality({i \in 1..Len(resetWins.won) : resetWins.won[i] = s}) <= 1

\* C23: after any sequence of SIGTERM/SIGINT signals the process ends in one
\* of two ways: the in-flight requests drain, then the database connection is
\* closed, then the process exits with code 0; or the deadline fires first
\* and the process exits with code 1. The connection is never closed while a
\* request is in flight, and the process never exits between drain and the
\* completion of the disconnect except through the deadline.
C23_ShutdownDrainsThenDisconnects ==
    /\ proc.db # "connected" => proc.conns = 0
    /\ proc.exit # Running =>
          \/ proc.exit = 0 /\ proc.conns = 0 /\ proc.db \in {"closed", "disconnect failed"}
          \/ proc.exit = 1 /\ proc.via = "deadline"

====
